---- MODULE Spec2Model ----
(***************************************************************************)
(* A model of the JLCPCB part-search engine of ppk-pd: the jlcpcb_db       *)
(* object (query_category, filter_results_by_extra_json_attributes,        *)
(* sort_by_basic_price), the per-family predicate builders and the         *)
(* find_* resolutions that drive them.                                     *)
(*                                                                         *)
(* Text is modelled as a sequence of one-character strings, so that the    *)
(* Python string operations (strip, rstrip, replace, "in", format) are     *)
(* computed the way Python computes them.                                  *)
(***************************************************************************)
EXTENDS Integers, Sequences, FiniteSets, TLC

VARIABLES
    catalog,    \* the rows of "main"."components" in scope (read-only)
    results,    \* jlcpcb_db.results
    error,      \* the exception that left the last call, or "none"
    ret,        \* the row returned by sort_by_basic_price (a sequence of 0 or 1 row)
    last,       \* the last db call: its name, its arguments, results on entry
    fn,         \* builder specification: the builder called last
    arg,        \* builder specification: its arguments
    out,        \* builder specification: what it returned or raised
    find        \* resolution specification: the running find_* call

vars == <<catalog, results, error, ret, last, fn, arg, out, find>>

----------------------------------------------------------------------------
\* Bounds of the model.

\* Longest catalog (rows in scope of one query).
MaxRows == 2
\* Largest order quantity tried.
MaxQuantity == 3
\* The quantity up to which the first of two price tiers applies.
TierBreak == 2
\* Largest attribute value and constraint bound tried.
MaxValue == 3
\* Interval bounds of the standard-value generator go up to 10^MaxDecade.
MaxDecade == 4

----------------------------------------------------------------------------
\* Text helpers (Python str operations on sequences of characters).

RECURSIVE RStripChars(_, _)
\* str.rstrip(chars)
RStripChars(s, chars) ==
    IF Len(s) > 0 /\ s[Len(s)] \in chars
    THEN RStripChars(SubSeq(s, 1, Len(s) - 1), chars)
    ELSE s

RECURSIVE LStripChars(_, _)
\* str.lstrip(chars)
LStripChars(s, chars) ==
    IF Len(s) > 0 /\ s[1] \in chars
    THEN LStripChars(SubSeq(s, 2, Len(s)), chars)
    ELSE s

\* str.strip(chars)
StripChars(s, chars) == LStripChars(RStripChars(s, chars), chars)

\* str.replace(a, b) for one-character a and b
ReplaceChar(s, a, b) == [i \in 1..Len(s) |-> IF s[i] = a THEN b ELSE s[i]]

\* sub in s
Contains(s, sub) ==
    \E i \in 1..(Len(s) - Len(sub) + 1) : SubSeq(s, i, i + Len(sub) - 1) = sub

\* The set of the elements of a sequence.
Elements(seq) == {seq[i] : i \in 1..Len(seq)}

Digits == {"0", "1", "2", "3", "4", "5", "6", "7", "8", "9"}

DigitVal(c) ==
    CASE c = "0" -> 0 [] c = "1" -> 1 [] c = "2" -> 2 [] c = "3" -> 3
      [] c = "4" -> 4 [] c = "5" -> 5 [] c = "6" -> 6 [] c = "7" -> 7
      [] c = "8" -> 8 [] c = "9" -> 9

\* The text of a one-digit number.
DigitChar(v) == CHOOSE c \in Digits : DigitVal(c) = v

RECURSIVE DecimalVal(_)
\* the number a sequence of digits denotes
DecimalVal(s) ==
    IF Len(s) = 0 THEN 0
    ELSE 10 * DecimalVal(SubSeq(s, 1, Len(s) - 1)) + DigitVal(s[Len(s)])

----------------------------------------------------------------------------
\* Unit codec.

\* The value si_parse cannot produce: si_to_float raised.
ParseError == -1

\* si_prefix.si_parse on whole numbers: digits, then at most one prefix.
\* Anything else (the "-" marker, an empty text) raises.
SiParse(s) ==
    LET body == IF Len(s) > 0 /\ s[Len(s)] \in {"k", "M"}
                THEN SubSeq(s, 1, Len(s) - 1) ELSE s
        scale == IF Len(s) > 0 /\ s[Len(s)] = "k" THEN 1000
                 ELSE IF Len(s) > 0 /\ s[Len(s)] = "M" THEN 1000000
                 ELSE 1
    IN  IF Len(body) > 0 /\ \A i \in 1..Len(body) : body[i] \in Digits
        THEN DecimalVal(body) * scale
        ELSE ParseError

\* si_to_float: 'u' becomes the micro sign, the unit letters are stripped
\* from the right, the rest is parsed.
si_to_float(si_value) ==
    SiParse(RStripChars(ReplaceChar(si_value, "u", "µ"),
                        {"Ω", "F", "H", "A", "V", "W", "z"}))

----------------------------------------------------------------------------
\* Parameters: Constant(value), Range(min, max), TBD.

Constant(v) == [type |-> "Constant", value |-> v, min |-> v, max |-> v]
Range(lo, hi) == [type |-> "Range", value |-> lo, min |-> lo, max |-> hi]
TBD == [type |-> "TBD", value |-> 0, min |-> 0, max |-> 0]

----------------------------------------------------------------------------
\* Catalog rows.

\* JSON null, the qTo of the last price tier.
Null == -1

\* A price tier {"qTo": ..., "price": ...}.
Tier(qTo, price) == [qTo |-> qTo, price |-> price]

\* The price column: the JSON text of the tiers as stored, or the float that
\* sort_by_basic_price wrote over it.
PriceJson(tiers) == [isfloat |-> FALSE, tiers |-> tiers, value |-> 0]
PriceFloat(v) == [isfloat |-> TRUE, tiers |-> <<>>, value |-> v]

\* The extra column: text that is not JSON, JSON without "attributes", or
\* JSON whose "attributes" maps some keys to texts.
ExtraBadJson == [kind |-> "bad_json", attributes |-> <<>>]
ExtraNoAttributes == [kind |-> "no_attributes", attributes |-> <<>>]
ExtraAttributes(attrs) == [kind |-> "ok", attributes |-> attrs]

\* "moq: int = 50" of find_resistor, find_capacitor, find_inductor and
\* find_mosfet, and "moq: int = 1" of find_partnumber.
DefaultMoq == 50
PartnumberMoq == 1

\* A row of "components"; its stock is above the default floor unless said
\* otherwise.
Row(pn, basic, price, extra) ==
    [lcsc_pn |-> pn, basic |-> basic, price |-> price, extra |-> extra,
     stock |-> DefaultMoq + 1]

----------------------------------------------------------------------------
\* jlcpcb_db.filter_results_by_extra_json_attributes

\* attr_fn: the identity by default, lambda x: x.split("@")[0] for the
\* MOSFET attributes that carry their test condition.
RECURSIVE SplitAtFirst(_)
SplitAtFirst(s) ==
    IF Len(s) = 0 \/ s[1] = "@" THEN <<>>
    ELSE <<s[1]>> \o SplitAtFirst(SubSeq(s, 2, Len(s)))

ApplyAttrFn(attr_fn, s) == IF attr_fn = "split_at" THEN SplitAtFirst(s) ELSE s

\* The body of the try block up to part_val: json.loads, ["attributes"],
\* [key], attr_fn, si_to_float; exc is the exception that left it.
PartVal(part, key, attr_fn) ==
    IF part.extra.kind = "bad_json"
    THEN [exc |-> "JSONDecodeError", val |-> 0]
    ELSE IF part.extra.kind = "no_attributes"
    THEN [exc |-> "KeyError", val |-> 0]
    ELSE IF key \notin DOMAIN part.extra.attributes
    THEN [exc |-> "KeyError", val |-> 0]
    ELSE LET v == si_to_float(ApplyAttrFn(attr_fn, part.extra.attributes[key]))
         IN  IF v = ParseError THEN [exc |-> "SiParseError", val |-> 0]
             ELSE [exc |-> "none", val |-> v]

\* "if part_val > value.min and part_val < value.max"
RangeCompare(part_val, value) ==
    part_val > value.min /\ part_val < value.max

\* "if part_val == value.value"
ConstantCompare(part_val, value) == part_val = value.value

\* An except clause that names one exception class only.
ExceptCatchesKeyErrorOnly(exc) == exc = "KeyError"

\* "except Exception as e": every exception of the try block is caught.
ExceptCatches(exc) == TRUE

RECURSIVE FilterScan(_, _, _, _, _, _)
\* The loop over self.results from part i on; acc is filtered_results.
FilterScan(rows, i, acc, key, value, attr_fn) ==
    IF i > Len(rows) THEN [results |-> acc, error |-> "none"]
    ELSE LET pv == PartVal(rows[i], key, attr_fn)
             keep == IF value.type = "Constant"
                     THEN ConstantCompare(pv.val, value)
                     ELSE RangeCompare(pv.val, value)
         IN  IF pv.exc # "none"
             THEN IF ExceptCatches(pv.exc)
                  THEN FilterScan(rows, i + 1, acc, key, value, attr_fn)
                  ELSE [results |-> rows, error |-> pv.exc]
             ELSE FilterScan(rows, i + 1,
                             IF keep THEN Append(acc, rows[i]) ELSE acc,
                             key, value, attr_fn)

\* A filter that leaves self.results as it was when no part passed.
FilterResultsUnlessNoneLeft(rows, key, value, attr_fn) ==
    IF value.type \in {"Constant", "Range"}
    THEN LET o == FilterScan(rows, 1, <<>>, key, value, attr_fn)
         IN  IF o.results = <<>> THEN [results |-> rows, error |-> o.error]
             ELSE o
    ELSE [results |-> rows, error |-> "none"]

\* A filter that raises for a parameter that is neither Constant nor Range
\* (the raise that is commented out after the return).
FilterResultsRaisesOnUnknown(rows, key, value, attr_fn) ==
    IF value.type \in {"Constant", "Range"}
    THEN FilterScan(rows, 1, <<>>, key, value, attr_fn)
    ELSE [results |-> rows, error |-> "NotImplementedError"]

\* A filter that collects the passing parts in self.results itself instead
\* of a fresh list.
FilterResultsAppendsToResults(rows, key, value, attr_fn) ==
    IF value.type \in {"Constant", "Range"}
    THEN LET o == FilterScan(rows, 1, <<>>, key, value, attr_fn)
         IN  [results |-> rows \o o.results, error |-> o.error]
    ELSE [results |-> rows, error |-> "none"]

\* The whole method: self.results after it and what it raised. A parameter
\* that is neither Constant nor Range is logged and the method returns.
FilterResults(rows, key, value, attr_fn) ==
    IF value.type \in {"Constant", "Range"}
    THEN FilterScan(rows, 1, <<>>, key, value, attr_fn)
    ELSE [results |-> rows, error |-> "none"]

----------------------------------------------------------------------------
\* jlcpcb_db.sort_by_basic_price

RECURSIVE TierScan(_, _, _)
\* The inner loop over price_json from tier j on: the first tier with
\* quantity <= qTo. Comparing the int quantity with the None of a JSON null
\* raises TypeError before the right operand of "or" is looked at.
TierScan(tiers, j, quantity) ==
    IF j > Len(tiers) THEN [status |-> "none", price |-> 0]
    ELSE IF tiers[j].qTo = Null THEN [status |-> "TypeError", price |-> 0]
    ELSE IF quantity <= tiers[j].qTo
         THEN [status |-> "match", price |-> tiers[j].price]
    ELSE TierScan(tiers, j + 1, quantity)

RECURSIVE SortScan(_, _, _, _)
\* The outer loop from row i on. rows is self.results, whose dicts the loop
\* writes to in place; acc is the local list results.
SortScan(rows, i, acc, quantity) ==
    IF i > Len(rows) THEN [rows |-> rows, acc |-> acc, err |-> "none"]
    ELSE IF rows[i].price.isfloat
         THEN [rows |-> rows, acc |-> acc, err |-> "TypeError"]
    ELSE LET t == TierScan(rows[i].price.tiers, 1, quantity)
         IN  IF t.status = "TypeError"
             THEN [rows |-> rows, acc |-> acc, err |-> "TypeError"]
             ELSE IF t.status = "none"
             THEN SortScan(rows, i + 1, acc, quantity)
             ELSE LET row == [rows[i] EXCEPT !.price = PriceFloat(t.price)]
                  IN  SortScan([rows EXCEPT ![i] = row], i + 1,
                               Append(acc, row), quantity)

\* key=lambda row: (-row["basic"], row["price"]): a sorts strictly before b.
KeyLess(a, b) ==
    \/ a.basic > b.basic
    \/ a.basic = b.basic /\ a.price.value < b.price.value

RECURSIVE InsertSorted(_, _)
\* x goes after every element that does not sort strictly after it.
InsertSorted(sorted, x) ==
    IF Len(sorted) = 0 THEN <<x>>
    ELSE IF KeyLess(x, sorted[1]) THEN <<x>> \o sorted
    ELSE <<sorted[1]>> \o InsertSorted(SubSeq(sorted, 2, Len(sorted)), x)

RECURSIVE Sorted(_)
\* sorted(results, key=...): stable.
Sorted(rows) ==
    IF Len(rows) = 0 THEN <<>>
    ELSE InsertSorted(Sorted(SubSeq(rows, 1, Len(rows) - 1)), rows[Len(rows)])

\* The whole method: self.results after it, what it raised, what it returned.
SortOutcome(rows, quantity) ==
    LET scan == SortScan(rows, 1, <<>>, quantity)
        sorted == Sorted(scan.acc)
    IN  IF scan.err # "none"
        THEN [results |-> scan.rows, error |-> scan.err, ret |-> <<>>]
        ELSE IF Len(sorted) = 0
        THEN [results |-> sorted, error |-> "IndexError", ret |-> <<>>]
        ELSE [results |-> sorted, error |-> "none", ret |-> <<sorted[1]>>]

----------------------------------------------------------------------------
\* The jlcpcb_db object: its calls as actions.

NoCall ==
    [op |-> "none", key |-> "", value |-> TBD, attr_fn |-> "id",
     quantity |-> 0, before |-> <<>>, hit |-> {}]

RECURSIVE SubSeqAt(_, _, _)
\* The rows of s at the indices in S, in the order of s, from index i on.
SubSeqAt(s, S, i) ==
    IF i > Len(s) THEN <<>>
    ELSE (IF i \in S THEN <<s[i]>> ELSE <<>>) \o SubSeqAt(s, S, i + 1)

\* query_category(category_id, query): hit is the set of catalog rows the
\* SELECT matches. No row: LookupError, self.results left alone.
QueryCategory(hit) ==
    /\ error = "none"
    /\ last' = [NoCall EXCEPT !.op = "query_category", !.before = results,
                              !.hit = hit]
    /\ IF hit = {}
       THEN /\ error' = "LookupError"
            /\ UNCHANGED results
       ELSE /\ error' = "none"
            /\ results' = SubSeqAt(catalog, hit, 1)
    /\ ret' = <<>>
    /\ UNCHANGED <<catalog, fn, arg, out, find>>

\* filter_results_by_extra_json_attributes(key, value, attr_fn)
FilterResultsByExtraJsonAttributes(key, value, attr_fn) ==
    /\ error = "none"
    /\ last.op # "none"
    /\ last' = [NoCall EXCEPT !.op = "filter", !.key = key, !.value = value,
                              !.attr_fn = attr_fn, !.before = results]
    /\ LET o == FilterResults(results, key, value, attr_fn)
       IN  /\ results' = o.results
           /\ error' = o.error
    /\ ret' = <<>>
    /\ UNCHANGED <<catalog, fn, arg, out, find>>

\* sort_by_basic_price(quantity)
SortByBasicPrice(quantity) ==
    /\ error = "none"
    /\ last.op # "none"
    /\ last' = [NoCall EXCEPT !.op = "sort", !.quantity = quantity,
                              !.before = results]
    /\ LET o == SortOutcome(results, quantity)
       IN  /\ results' = o.results
           /\ error' = o.error
           /\ ret' = o.ret
    /\ UNCHANGED <<catalog, fn, arg, out, find>>

Keys == {"Rated Current", "DC Resistance (DCR)"}

\* The calls on the db object. Every find_* queries first; filter stages and
\* ranking follow a query that returned rows.
NextDb(filter_values) ==
    \/ \E hit \in SUBSET (1..Len(catalog)) : QueryCategory(hit)
    \/ \E key \in Keys, value \in filter_values :
           FilterResultsByExtraJsonAttributes(key, value, "id")
    \/ \E quantity \in 1..MaxQuantity : SortByBasicPrice(quantity)

\* Catalogs: every sequence of 1..MaxRows rows over a pool, numbered by
\* position (lcsc is the primary key).
Catalogs(pool) ==
    UNION {{[i \in 1..n |-> [c[i] EXCEPT !.lcsc_pn = i]] : c \in [1..n -> pool]}
           : n \in 1..MaxRows}

\* Unit prices of the tiers.
Prices == {1, 2}

TierLists ==
    {<<Tier(TierBreak, p1), Tier(Null, p2)>> : p1 \in Prices, p2 \in Prices}
    \cup {<<Tier(Null, p)>> : p \in Prices}
    \cup {<<Tier(TierBreak, p)>> : p \in Prices}

Text2A == <<"2", "A">>

\* Rows that differ in what ranking reads.
RankRows ==
    {Row(0, basic, PriceJson(tiers),
         ExtraAttributes([k \in {"Rated Current"} |-> Text2A])) :
        basic \in {0, 1}, tiers \in TierLists}

InitIdle ==
    /\ fn = "none" /\ arg = <<>> /\ out = <<>>
    /\ find = <<>>

InitDb(pool) ==
    /\ catalog \in Catalogs(pool)
    /\ results = <<>>
    /\ error = "none"
    /\ ret = <<>>
    /\ last = NoCall
    /\ InitIdle

\* Texts of the "Rated Current" attribute: a value in amperes, or the "-"
\* marker of a value that does not apply.
CurrentTexts == {<<DigitChar(v), "A">> : v \in 1..MaxValue} \cup {<<"-">>}

TwoTiers == <<Tier(TierBreak, 2), Tier(Null, 1)>>

\* Rows that differ in what the attribute filter reads.
FilterRows ==
    {Row(0, 1, PriceJson(TwoTiers), extra) :
        extra \in {ExtraBadJson, ExtraNoAttributes, ExtraAttributes(<<>>)}
                  \cup {ExtraAttributes([k \in {"Rated Current"} |-> t]) :
                            t \in CurrentTexts}}

\* Constant and Range constraints, and TBD.
FilterValues ==
    {Constant(v) : v \in 1..MaxValue}
    \cup {Range(lo, hi) : lo \in 1..MaxValue, hi \in 1..MaxValue}
    \cup {TBD}

\* Attribute filtering: catalogs that differ in the extra column.
InitFilter == InitDb(FilterRows)

NextFilter == NextDb({v \in FilterValues : v.min <= v.max})

SpecFilter == InitFilter /\ [][NextFilter]_vars

\* Ranking: catalogs that differ in preferred flag and price tiers.
Init == InitDb(RankRows)

Next == NextDb({Constant(2), Constant(3), TBD})

Spec == Init /\ [][Next]_vars

----------------------------------------------------------------------------
\* Predicate builders. A builder's result is the sequence of the text
\* fragments it ORs together between "(" and ")", or the exception it raised.

Built(frags) == [error |-> "none", frags |-> frags]
Raised(exc) == [error |-> exc, frags |-> <<>>]

\* Tolerance percentages are counted in hundredths of a percent (1% = 100),
\* and deviations in 1/10000 of the unit of the nominal value, so that
\* "percent / 100 * value" is the integer percent * value.
RelativeLabel(label, hundredths) == [label |-> label, rel |-> hundredths, abs |-> 0]
AbsoluteLabel(label, deviation) == [label |-> label, rel |-> 0, abs |-> deviation]

\* tolerance_abs of a table entry at the nominal value
ToleranceAbs(entry, value) == entry.rel * value + entry.abs

\* The tolerances dict of build_resistor_tolerance_query, in insertion order.
ResistorTolerances ==
    << RelativeLabel("0.01%", 1), RelativeLabel("0.02%", 2),
       RelativeLabel("0.05%", 5), RelativeLabel("0.1%", 10),
       RelativeLabel("0.2%", 20), RelativeLabel("0.25%", 25),
       RelativeLabel("0.5%", 50), RelativeLabel("1%", 100),
       RelativeLabel("2%", 200), RelativeLabel("3%", 300),
       RelativeLabel("5%", 500), RelativeLabel("7.5%", 750),
       RelativeLabel("10%", 1000), RelativeLabel("15%", 1500),
       RelativeLabel("20%", 2000), RelativeLabel("30%", 3000) >>

\* The tolerances dict of build_capacitor_tolerance_query; the nominal value
\* is in pF, so 0.1 pF is 1000/10000 pF.
CapacitorTolerances ==
    << AbsoluteLabel("0.1pF", 1000), AbsoluteLabel("0.25pF", 2500),
       AbsoluteLabel("0.5pF", 5000), RelativeLabel("1%", 100),
       RelativeLabel("2%", 200), RelativeLabel("2.5%", 250),
       RelativeLabel("5%", 500), RelativeLabel("10%", 1000),
       RelativeLabel("15%", 1500), RelativeLabel("20%", 2000) >>

\* The tolerances dict of build_inductor_tolerance_query.
InductorTolerances ==
    << RelativeLabel("1%", 100), RelativeLabel("2%", 200),
       RelativeLabel("3%", 300), RelativeLabel("5%", 500),
       RelativeLabel("7%", 700), RelativeLabel("10%", 1000),
       RelativeLabel("12%", 1200), RelativeLabel("15%", 1500),
       RelativeLabel("18%", 1800), RelativeLabel("20%", 2000),
       RelativeLabel("22%", 2200), RelativeLabel("23%", 2300),
       RelativeLabel("25%", 2500), RelativeLabel("30%", 3000),
       RelativeLabel("35%", 3500) >>

\* The labels of the entries that passed the test, in table order.
LabelsOf(kept) == [i \in 1..Len(kept) |-> kept[i].label]

\* "if type(resistance) is Constant ... elif ... is Range ... else raise"
NominalUnsupported(nominal) == nominal.type \notin {"Constant", "Range"}

\* "value = capacitance.value" for a Constant, "capacitance.min" for a Range
NominalOf(nominal) ==
    IF nominal.type = "Constant" THEN nominal.value ELSE nominal.min

\* "max_tolerance_percent = tolerance.value" for a Constant, else tolerance.max
MaxToleranceOf(tolerance) ==
    IF tolerance.type = "Constant" THEN tolerance.value ELSE tolerance.max

\* "min_tolerance_percent = tolerance.value" for a Constant, else tolerance.min
MinToleranceOf(tolerance) ==
    IF tolerance.type = "Constant" THEN tolerance.value ELSE tolerance.min

\* build_resistor_tolerance_query(resistance, tolerance)
build_resistor_tolerance_query(resistance, tolerance) ==
    IF tolerance.type # "Constant" THEN Raised("NotImplementedError")
    ELSE IF NominalUnsupported(resistance) THEN Raised("NotImplementedError")
    ELSE LET r == NominalOf(resistance)
             max_tolerance_percent == tolerance.value
         IN  Built(LabelsOf(SelectSeq(ResistorTolerances,
                 LAMBDA e : ToleranceAbs(e, r) <= max_tolerance_percent * r)))

\* A loop that accepts a label only when its deviation is the maximum itself.
BandLabelsAtMaxOnly(table, value, max_tolerance_percent, min_tolerance_percent) ==
    LabelsOf(SelectSeq(table,
        LAMBDA e : /\ ToleranceAbs(e, value) = max_tolerance_percent * value
                   /\ ToleranceAbs(e, value) > min_tolerance_percent * value))

\* The loop shared by the capacitor and the inductor builder: both bounds
\* are tested, the lower one strictly.
BandLabels(table, value, max_tolerance_percent, min_tolerance_percent) ==
    LabelsOf(SelectSeq(table,
        LAMBDA e : /\ ToleranceAbs(e, value) <= max_tolerance_percent * value
                   /\ ToleranceAbs(e, value) > min_tolerance_percent * value))

\* build_capacitor_tolerance_query(capacitance, tolerance): a Constant
\* tolerance sets both max_tolerance_percent and min_tolerance_percent.
build_capacitor_tolerance_query(capacitance, tolerance) ==
    IF tolerance.type \notin {"Constant", "Range"} THEN Raised("NotImplementedError")
    ELSE IF NominalUnsupported(capacitance) THEN Raised("NotImplementedError")
    ELSE Built(BandLabels(CapacitorTolerances, NominalOf(capacitance),
                          MaxToleranceOf(tolerance), MinToleranceOf(tolerance)))

\* build_inductor_tolerance_query(inductance, tolerance)
build_inductor_tolerance_query(inductance, tolerance) ==
    IF tolerance.type \notin {"Constant", "Range"} THEN Raised("NotImplementedError")
    ELSE IF NominalUnsupported(inductance) THEN Raised("NotImplementedError")
    ELSE Built(BandLabels(InductorTolerances, NominalOf(inductance),
                          MaxToleranceOf(tolerance), MinToleranceOf(tolerance)))

\* The member names of the CaseSize enums in declared order; a member's value
\* is its position (IntEnum, 1..13).
ResistorCaseSize ==
    <<
       <<"R", "0", "1", "0", "0", "5">>, <<"R", "0", "2", "0", "1">>,
       <<"R", "0", "4", "0", "2">>, <<"R", "0", "6", "0", "3">>,
       <<"R", "0", "8", "0", "5">>, <<"R", "1", "0", "0", "8">>,
       <<"R", "1", "2", "0", "6">>, <<"R", "1", "2", "1", "0">>,
       <<"R", "1", "8", "0", "6">>, <<"R", "1", "8", "1", "2">>,
       <<"R", "1", "8", "2", "5">>, <<"R", "2", "0", "1", "0">>,
       <<"R", "2", "5", "1", "2">> >>

CapacitorCaseSize ==
    <<
       <<"C", "0", "1", "0", "0", "5">>, <<"C", "0", "2", "0", "1">>,
       <<"C", "0", "4", "0", "2">>, <<"C", "0", "6", "0", "3">>,
       <<"C", "0", "8", "0", "5">>, <<"C", "1", "0", "0", "8">>,
       <<"C", "1", "2", "0", "6">>, <<"C", "1", "2", "1", "0">>,
       <<"C", "1", "8", "0", "6">>, <<"C", "1", "8", "1", "2">>,
       <<"C", "1", "8", "2", "5">>, <<"C", "2", "0", "1", "0">>,
       <<"C", "2", "5", "1", "2">> >>

\* The members of Inductor.CaseSize are named like the resistor's.
InductorCaseSize ==
    <<
       <<"R", "0", "1", "0", "0", "5">>, <<"R", "0", "2", "0", "1">>,
       <<"R", "0", "4", "0", "2">>, <<"R", "0", "6", "0", "3">>,
       <<"R", "0", "8", "0", "5">>, <<"R", "1", "0", "0", "8">>,
       <<"R", "1", "2", "0", "6">>, <<"R", "1", "2", "1", "0">>,
       <<"R", "1", "8", "0", "6">>, <<"R", "1", "8", "1", "2">>,
       <<"R", "1", "8", "2", "5">>, <<"R", "2", "0", "1", "0">>,
       <<"R", "2", "5", "1", "2">> >>

\* The loop of the case-size builders: one fragment per member cs with
\* value_min <= cs <= value_max, the member's name stripped of the letter.
CaseSizeFragments(names, value_min, value_max, letter) ==
    LET hit == SelectSeq([i \in 1..Len(names) |-> i],
                         LAMBDA cs : cs >= value_min /\ cs <= value_max)
    IN  [i \in 1..Len(hit) |-> StripChars(names[hit[i]], {letter})]

\* "value_max = value_min" for a Constant, the Range's bounds otherwise.
CaseSizeQuery(names, case_size, letter) ==
    IF case_size.type = "Constant"
    THEN Built(CaseSizeFragments(names, case_size.value, case_size.value, letter))
    ELSE IF case_size.type = "Range"
    THEN Built(CaseSizeFragments(names, case_size.min, case_size.max, letter))
    ELSE Raised("NotImplementedError")

\* build_resistor_case_size_query: cs.name.strip("R")
build_resistor_case_size_query(case_size) ==
    CaseSizeQuery(ResistorCaseSize, case_size, "R")

\* build_capacitor_case_size_query: cs.name.strip("C")
build_capacitor_case_size_query(case_size) ==
    CaseSizeQuery(CapacitorCaseSize, case_size, "C")

\* build_inductor_case_size_query: cs.name.strip("L")
build_inductor_case_size_query(case_size) ==
    CaseSizeQuery(InductorCaseSize, case_size, "L")

\* ------------------------------------------------------------------------
\* build_capacitor_temperature_coefficient_query

\* Capacitor.TemperatureCoefficient: the names of the members 1..8 in the
\* order they are declared in.
TemperatureCoefficient ==
    << "Y5V", "Z5U", "X7S", "X5R", "X6R", "X7R", "X8R", "C0G" >>

\* Capacitor.TemperatureCoefficient.C0G
C0G == 8

\* The loop: one fragment "description LIKE '%<name>%'" per member tc with
\* value_min <= tc <= value_max, in the order of the enum.
TemperatureCoefficientFragments(value_min, value_max) ==
    LET hit == SelectSeq([i \in 1..Len(TemperatureCoefficient) |-> i],
                         LAMBDA tc : tc >= value_min /\ tc <= value_max)
    IN  [i \in 1..Len(hit) |-> TemperatureCoefficient[hit[i]]]

\* A builder that takes a Constant as the one grade asked for, as the
\* case-size builders do.
TemperatureCoefficientQueryExactOnly(temperature_coefficient) ==
    IF temperature_coefficient.type = "Constant"
    THEN Built(TemperatureCoefficientFragments(temperature_coefficient.value,
                                               temperature_coefficient.value))
    ELSE IF temperature_coefficient.type = "Range"
    THEN Built(TemperatureCoefficientFragments(temperature_coefficient.min,
                                               temperature_coefficient.max))
    ELSE Raised("NotImplementedError")

\* "value_max = Capacitor.TemperatureCoefficient.C0G" for a Constant, the
\* Range's bounds otherwise.
build_capacitor_temperature_coefficient_query(temperature_coefficient) ==
    IF temperature_coefficient.type = "Constant"
    THEN Built(TemperatureCoefficientFragments(temperature_coefficient.value, C0G))
    ELSE IF temperature_coefficient.type = "Range"
    THEN Built(TemperatureCoefficientFragments(temperature_coefficient.min,
                                               temperature_coefficient.max))
    ELSE Raised("NotImplementedError")

\* ------------------------------------------------------------------------
\* float_to_si and build_capacitor_value_query. Magnitudes are whole numbers
\* of pico-units (a capacitance in pF).

RECURSIVE Pow10(_)
Pow10(k) == IF k <= 0 THEN 1 ELSE 10 * Pow10(k - 1)

\* int(floor(log10(x))) for a whole x >= 1
FloorLog10(x) == CHOOSE k \in 0..8 : Pow10(k) <= x /\ x < Pow10(k + 1)

RECURSIVE IntText(_)
\* str of a natural number
IntText(n) ==
    IF n < 10 THEN <<DigitChar(n)>>
    ELSE IntText(n \div 10) \o <<DigitChar(n % 10)>>

\* The power of 1000 si_format scales by, counted from pico.
PrefixIndex(value) ==
    IF value < 1000 THEN 0
    ELSE IF value < 1000000 THEN 1
    ELSE IF value < 1000000000 THEN 2
    ELSE 3

\* si_format's {prefix}: p, n, the micro sign, m.
PrefixText(k) ==
    CASE k = 0 -> <<"p">> [] k = 1 -> <<"n">> [] k = 2 -> <<"µ">> [] k = 3 -> <<"m">>

\* si_format's {value} at precision=2: the scaled value with two decimals.
ValueText(value) ==
    LET unit == Pow10(3 * PrefixIndex(value))
        hundredths == (value * 100 + unit \div 2) \div unit
    IN  IntText(hundredths \div 100) \o <<".">>
            \o <<DigitChar((hundredths \div 10) % 10), DigitChar(hundredths % 10)>>

\* float_to_si for a finite value: trailing zeros and a trailing point are
\* stripped, the prefix is appended, and the micro sign is written 'u'.
float_to_si(value) ==
    ReplaceChar(RStripChars(RStripChars(ValueText(value), {"0"}), {"."})
                    \o PrefixText(PrefixIndex(value)),
                "µ", "u")

\* f"{text:03}" on a str. From Python 3.10 on the text is left-aligned and
\* filled with '0' to width 3; before, the format raises ValueError.
ZeroFill3(text) ==
    text \o [i \in 1..(3 - Len(text)) |-> "0"]

\* "nF" in value_str and not "." in value_str
\* and len(value_str.rstrip("nF")) >= 2
HasMicroSpelling(value_str) ==
    /\ Contains(value_str, <<"n", "F">>)
    /\ ~Contains(value_str, <<".">>)
    /\ Len(RStripChars(value_str, {"n", "F"})) >= 2

\* value_uf_str = f"0.{value_str.rstrip('nF'):03}".rstrip("0") + "uF"
MicroSpelling(value_str) ==
    RStripChars(<<"0", ".">> \o ZeroFill3(RStripChars(value_str, {"n", "F"})),
                {"0"}) \o <<"u", "F">>

\* E24 of library.e_series, in tenths, ascending.
E24 ==
    << 10, 11, 12, 13, 15, 16, 18, 20, 22, 24, 27, 30,
      33, 36, 39, 43, 47, 51, 56, 62, 68, 75, 82, 91 >>

\* The values e * 10**exp of one series and one decade inside the interval,
\* ascending.
SeriesDecade(series, scale, value_range) ==
    SelectSeq([i \in 1..Len(series) |-> series[i] * scale],
              LAMBDA v : v >= value_range.min /\ v <= value_range.max)

RECURSIVE SeriesFrom(_, _, _, _)
\* Decade after decade from exp up to last.
SeriesFrom(series, exp, last_exp, value_range) ==
    IF exp > last_exp THEN <<>>
    ELSE SeriesDecade(series, Pow10(exp), value_range)
             \o SeriesFrom(series, exp + 1, last_exp, value_range)

\* e_series_in_range(value_range) of library.e_series: the standard values
\* inside the closed interval, ascending.
e_series_in_range(value_range) ==
    SeriesFrom(E24, 0, FloorLog10(value_range.max), value_range)

RECURSIVE CapacitorValueFragments(_, _)
\* The loop over e_values: the value's text and, where the test passes, its
\* uF spelling.
CapacitorValueFragments(e_values, i) ==
    IF i > Len(e_values) THEN <<>>
    ELSE LET value_str == float_to_si(e_values[i]) \o <<"F">>
         IN  <<value_str>>
             \o (IF HasMicroSpelling(value_str)
                 THEN <<MicroSpelling(value_str)>> ELSE <<>>)
             \o CapacitorValueFragments(e_values, i + 1)

\* build_capacitor_value_query(capacitance); str_zero_fill is whether the
\* interpreter formats a str with "03" (Python >= 3.10) or raises.
build_capacitor_value_query(capacitance, str_zero_fill) ==
    IF capacitance.type = "Constant"
    THEN Built(<<float_to_si(capacitance.value) \o <<"F">>>>)
    ELSE IF capacitance.type = "Range"
    THEN LET e_values == e_series_in_range(capacitance)
         IN  IF ~str_zero_fill
                 /\ \E i \in 1..Len(e_values) :
                        HasMicroSpelling(float_to_si(e_values[i]) \o <<"F">>)
             THEN Raised("ValueError")
             ELSE Built(CapacitorValueFragments(e_values, 1))
    ELSE Raised("NotImplementedError")

\* ------------------------------------------------------------------------
\* float_to_si and si_to_float on decimal fractions. A float is the decimal
\* fraction -1^neg * digits * 10^exp, or an infinity.

Finite(neg, digits, exp) == [inf |-> FALSE, neg |-> neg, digits |-> digits, exp |-> exp]
Infinite(neg) == [inf |-> TRUE, neg |-> neg, digits |-> 0, exp |-> 0]

\* The character U+221E of float_to_si's infinity branches.
InfinitySign == "U+221E"

\* floor(log10(abs(value)))
Lead(value) == value.exp + FloorLog10(value.digits)

\* int(math.log10(value)) of si_prefix.split: truncation towards zero.
TruncLog10(value) ==
    IF Lead(value) >= 0 \/ value.digits = Pow10(FloorLog10(value.digits))
    THEN Lead(value) ELSE Lead(value) + 1

\* expof10 of si_prefix.split: the multiple of three below int(log10), and
\* three more when the scaled value is still >= 1000.
SplitExpOf10(value) ==
    LET e == TruncLog10(value)
        e3 == IF e > 0 THEN (e \div 3) * 3 ELSE 0 - ((3 - e) \div 3) * 3
    IN  IF Lead(value) - e3 >= 3 THEN e3 + 3 ELSE e3

\* "%.2f" % svalue, in hundredths: the scaled value rounded to two decimals;
\* ties_up is the way the binary float nearest to a tie is rounded.
SplitHundredths(value, ties_up) ==
    LET shift == value.exp - SplitExpOf10(value) + 2
        p == Pow10(0 - shift)
        q == value.digits \div p
        r == value.digits % p
    IN  IF shift >= 0 THEN value.digits * Pow10(shift)
        ELSE IF 2 * r > p \/ (2 * r = p /\ ties_up) THEN q + 1
        ELSE q

\* si_prefix.SI_PREFIX_UNITS
SI_PREFIX_UNITS ==
    <<"y", "z", "a", "f", "p", "n", "µ", "m", " ",
      "k", "M", "G", "T", "P", "E", "Z", "Y">>

\* si_format(value, precision=2, format_str="{prefix}"): prefix(expof10).strip()
SiFormatPrefix(value) ==
    LET c == SI_PREFIX_UNITS[(SplitExpOf10(value) + 24) \div 3 + 1]
    IN  IF c = " " THEN <<>> ELSE <<c>>

\* si_format(value, precision=2, format_str="{value}")
SiFormatValue(value, ties_up) ==
    LET h == SplitHundredths(value, ties_up)
    IN  (IF value.neg THEN <<"-">> ELSE <<>>)
            \o IntText(h \div 100) \o <<".">>
            \o <<DigitChar((h \div 10) % 10), DigitChar(h % 10)>>

\* float_to_si without the last replace.
float_to_si_keeps_micro(value, ties_up) ==
    IF value.inf
    THEN IF value.neg THEN <<"-", InfinitySign>> ELSE <<InfinitySign>>
    ELSE RStripChars(RStripChars(SiFormatValue(value, ties_up), {"0"}), {"."})
             \o SiFormatPrefix(value)

\* float_to_si(value) on a decimal fraction or an infinity: the two
\* infinity branches, else value_str.rstrip("0").rstrip(".") + prefix_str,
\* and the micro sign replaced by 'u'.
float_to_si_of_decimal(value, ties_up) ==
    ReplaceChar(
        IF value.inf
        THEN RStripChars(RStripChars(IF value.neg THEN <<"-", InfinitySign>> ELSE <<InfinitySign>>,
                                     {"0"}), {"."})
        ELSE RStripChars(RStripChars(SiFormatValue(value, ties_up), {"0"}), {"."})
                 \o SiFormatPrefix(value),
        "µ", "u")

\* What si_parse raises on is no float.
NoFloat == [inf |-> FALSE, neg |-> FALSE, digits |-> 0, exp |-> 0]

\* The number of leading digits of a text.
DigitPrefixLen(s) ==
    CHOOSE n \in 0..Len(s) :
        /\ \A i \in 1..n : s[i] \in Digits
        /\ n = Len(s) \/ s[n + 1] \notin Digits

\* si_prefix.si_parse: an optional sign, digits, an optional point and
\* digits, an optional prefix of SI_PREFIX_UNITS; float() of the number times
\* 10 ** (3 * (index - 8)).
si_parse(text) ==
    LET signed == Len(text) > 0 /\ text[1] \in {"-", "+"}
        unsigned == IF signed THEN SubSeq(text, 2, Len(text)) ELSE text
        has_unit == Len(unsigned) > 0
                        /\ unsigned[Len(unsigned)] \in Elements(SI_PREFIX_UNITS)
        number == IF has_unit THEN SubSeq(unsigned, 1, Len(unsigned) - 1)
                  ELSE unsigned
        n == DigitPrefixLen(number)
        integer == SubSeq(number, 1, n)
        rest == SubSeq(number, n + 1, Len(number))
        fraction == IF Len(rest) > 0 THEN SubSeq(rest, 2, Len(rest)) ELSE <<>>
        index == CHOOSE i \in 1..Len(SI_PREFIX_UNITS) :
                     SI_PREFIX_UNITS[i] = (IF has_unit
                                           THEN unsigned[Len(unsigned)] ELSE " ")
        well_formed ==
            /\ Len(integer) + Len(fraction) > 0
            /\ Len(rest) > 0 =>
                   /\ rest[1] = "."
                   /\ Len(fraction) > 0
                   /\ \A i \in 1..Len(fraction) : fraction[i] \in Digits
    IN  IF well_formed
        THEN Finite(signed /\ text[1] = "-", DecimalVal(integer \o fraction),
                    3 * (index - 9) - Len(fraction))
        ELSE NoFloat

\* si_to_float on the text of a decimal fraction.
si_to_float_of_text(si_value) ==
    si_parse(RStripChars(ReplaceChar(si_value, "u", "µ"),
                         {"Ω", "F", "H", "A", "V", "W", "z"}))

\* ------------------------------------------------------------------------
\* e_values_in_range. Mantissas are counted in hundredths.

\* A list that keeps the mantissas of E24 twice, as a concatenation of
\* overlapping tables without set() does.
EValuesKeptTwice ==
    [i \in 1..(2 * Len(E24)) |-> E24[((i - 1) % Len(E24)) + 1] * 10]

\* e_values = set(E24 + E48 + E96 + E192); the loop over the set is taken in
\* ascending order.
e_values ==
    << 100, 101, 102, 104, 105, 106, 107, 109, 110, 111, 113, 114,
      115, 117, 118, 120, 121, 123, 124, 126, 127, 129, 130, 132,
      133, 135, 137, 138, 140, 142, 143, 145, 147, 149, 150, 152,
      154, 156, 158, 160, 162, 164, 165, 167, 169, 172, 174, 176,
      178, 180, 182, 184, 187, 189, 191, 193, 196, 198, 200, 203,
      205, 208, 210, 213, 215, 218, 220, 221, 223, 226, 229, 232,
      234, 237, 240, 243, 246, 249, 252, 255, 258, 261, 264, 267,
      270, 271, 274, 277, 280, 284, 287, 291, 294, 298, 300, 301,
      305, 309, 312, 316, 320, 324, 328, 330, 332, 336, 340, 344,
      348, 352, 357, 360, 361, 365, 370, 374, 379, 383, 388, 390,
      392, 397, 402, 407, 412, 417, 422, 427, 430, 432, 437, 442,
      448, 453, 459, 464, 470, 475, 481, 487, 493, 499, 505, 510,
      511, 517, 523, 530, 536, 542, 549, 556, 560, 562, 569, 576,
      583, 590, 597, 604, 612, 619, 620, 626, 634, 642, 649, 657,
      665, 673, 680, 681, 690, 698, 706, 715, 723, 732, 741, 750,
      759, 768, 777, 787, 796, 806, 816, 820, 825, 835, 845, 856,
      866, 876, 887, 898, 909, 910, 920, 931, 942, 953, 965, 976,
      988 >>

\* int(ceil(log10(x))) for a whole x >= 1
CeilLog10(x) == CHOOSE k \in 0..8 : x <= Pow10(k) /\ (k = 0 \/ Pow10(k - 1) < x)

\* range(lower_exp, upper_exp)
PyRange(lower, upper) == lower..(upper - 1)

RECURSIVE EValuesFrom(_, _, _)
\* The outer loop, decade by decade: the values e * 10**exp of the decade
\* that lie in the interval. Bounds are whole numbers >= 100, so exp >= 2
\* and the values are whole.
EValuesFrom(exp, exps, value_range) ==
    IF exp \notin exps THEN <<>>
    ELSE SeriesDecade(e_values, Pow10(exp - 2), value_range)
             \o EValuesFrom(exp + 1, exps, value_range)

\* e_values_in_range(value_range)
e_values_in_range(value_range) ==
    LET lower_exp == FloorLog10(value_range.min)
        upper_exp == CeilLog10(value_range.max)
    IN  EValuesFrom(lower_exp, PyRange(lower_exp, upper_exp), value_range)

----------------------------------------------------------------------------
\* The builders as calls. A behaviour is one call: Init draws the builder and
\* its arguments from the pools below, the builder's action applies it and
\* out holds what it returned or raised.

\* out before the call has returned.
Pending == [error |-> "pending", frags |-> <<>>]

Called(name) == fn = name /\ out = Pending

BuildResistorToleranceQuery ==
    /\ Called("build_resistor_tolerance_query")
    /\ out' = build_resistor_tolerance_query(arg.nominal, arg.tolerance)
    /\ UNCHANGED <<catalog, results, error, ret, last, fn, arg, find>>

BuildCapacitorToleranceQuery ==
    /\ Called("build_capacitor_tolerance_query")
    /\ out' = build_capacitor_tolerance_query(arg.nominal, arg.tolerance)
    /\ UNCHANGED <<catalog, results, error, ret, last, fn, arg, find>>

BuildInductorToleranceQuery ==
    /\ Called("build_inductor_tolerance_query")
    /\ out' = build_inductor_tolerance_query(arg.nominal, arg.tolerance)
    /\ UNCHANGED <<catalog, results, error, ret, last, fn, arg, find>>

BuildResistorCaseSizeQuery ==
    /\ Called("build_resistor_case_size_query")
    /\ out' = build_resistor_case_size_query(arg.case_size)
    /\ UNCHANGED <<catalog, results, error, ret, last, fn, arg, find>>

BuildCapacitorCaseSizeQuery ==
    /\ Called("build_capacitor_case_size_query")
    /\ out' = build_capacitor_case_size_query(arg.case_size)
    /\ UNCHANGED <<catalog, results, error, ret, last, fn, arg, find>>

BuildInductorCaseSizeQuery ==
    /\ Called("build_inductor_case_size_query")
    /\ out' = build_inductor_case_size_query(arg.case_size)
    /\ UNCHANGED <<catalog, results, error, ret, last, fn, arg, find>>

BuildCapacitorValueQuery ==
    /\ Called("build_capacitor_value_query")
    /\ out' = build_capacitor_value_query(arg.capacitance, arg.str_zero_fill)
    /\ UNCHANGED <<catalog, results, error, ret, last, fn, arg, find>>

BuildCapacitorTemperatureCoefficientQuery ==
    /\ Called("build_capacitor_temperature_coefficient_query")
    /\ out' = build_capacitor_temperature_coefficient_query(
                  arg.temperature_coefficient)
    /\ UNCHANGED <<catalog, results, error, ret, last, fn, arg, find>>

EValuesInRange ==
    /\ Called("e_values_in_range")
    /\ out' = Built(e_values_in_range(arg.value_range))
    /\ UNCHANGED <<catalog, results, error, ret, last, fn, arg, find>>

\* float_to_si(value)
FloatToSi ==
    /\ Called("float_to_si")
    /\ out' = Built(<<float_to_si_of_decimal(arg.value, arg.ties_up)>>)
    /\ UNCHANGED <<catalog, results, error, ret, last, fn, arg, find>>

\* si_to_float of the text float_to_si returned.
SiToFloatBack ==
    /\ fn = "float_to_si" /\ out # Pending
    /\ error = "none" /\ ret = <<>>
    /\ LET back == si_to_float_of_text(out.frags[1])
       IN  IF back = NoFloat
           THEN error' = "SiParseError" /\ UNCHANGED ret
           ELSE ret' = <<back>> /\ UNCHANGED error
    /\ UNCHANGED <<catalog, results, last, fn, arg, out, find>>

NextBuild ==
    \/ FloatToSi
    \/ SiToFloatBack
    \/ BuildResistorToleranceQuery
    \/ BuildCapacitorToleranceQuery
    \/ BuildInductorToleranceQuery
    \/ BuildResistorCaseSizeQuery
    \/ BuildCapacitorCaseSizeQuery
    \/ BuildInductorCaseSizeQuery
    \/ BuildCapacitorValueQuery
    \/ BuildCapacitorTemperatureCoefficientQuery
    \/ EValuesInRange

\* Range(lo, hi) with lo <= hi over a set of points.
Intervals(points) ==
    {Range(b[1], b[2]) : b \in {x \in points \X points : x[1] <= x[2]}}

\* Constant(v), Range(lo, hi) and TBD.
Shapes(points) ==
    {Constant(v) : v \in points} \cup Intervals(points) \cup {TBD}

\* Nominal values (ohm, pF, nH) and tolerances (hundredths of a percent).
NominalPoints == {1, 100}
TolerancePoints == {100, 500, 1000, 2000}

\* Capacitances in pF around and inside the band 10 nF .. 1 uF.
CapacitancePoints == {4700, 8000, 10000, 12000, 47000, 100000, 1000000}

\* Interval bounds of e_values_in_range: the powers of ten and the points
\* half way, from 100 to 10^MaxDecade.
IntervalPoints ==
    {Pow10(k) : k \in 2..MaxDecade} \cup {5 * Pow10(k) : k \in 2..(MaxDecade - 1)}

\* Digit strings of the floats handed to float_to_si: short ones, ones that
\* round at the second decimal, and ones that round up to the next power.
DigitPoints == {1, 2, 15, 105, 999, 1005, 1234, 12345, 99949, 99995, 99999}

\* Magnitudes from 1e-15 to 1e9 by the power of ten of the leading digit,
\* and the two infinities.
FloatPoints ==
    {Finite(x[1], x[2], x[3] - FloorLog10(x[2])) :
        x \in {y \in BOOLEAN \X DigitPoints \X ((0 - 15)..9) :
                   y[3] < 9 \/ y[2] = 1}}
    \cup {Infinite(FALSE), Infinite(TRUE)}

\* The grades as Constant, every pair of grades as Range, the lower bound
\* above the upper one included, and TBD.
TemperatureCoefficientShapes ==
    {Constant(g) : g \in 1..Len(TemperatureCoefficient)}
    \cup {Range(b[1], b[2]) :
             b \in (1..Len(TemperatureCoefficient)) \X (1..Len(TemperatureCoefficient))}
    \cup {TBD}

BuilderCalls ==
    {[fn |-> f, arg |-> [nominal |-> n, tolerance |-> t]] :
        f \in {"build_resistor_tolerance_query", "build_capacitor_tolerance_query",
               "build_inductor_tolerance_query"},
        n \in Shapes(NominalPoints), t \in Shapes(TolerancePoints)}
    \cup {[fn |-> "build_resistor_case_size_query", arg |-> [case_size |-> cs]] :
             cs \in Shapes(1..Len(ResistorCaseSize))}
    \cup {[fn |-> "build_capacitor_case_size_query", arg |-> [case_size |-> cs]] :
             cs \in Shapes(1..Len(CapacitorCaseSize))}
    \cup {[fn |-> "build_inductor_case_size_query", arg |-> [case_size |-> cs]] :
             cs \in Shapes(1..Len(InductorCaseSize))}
    \cup {[fn |-> "build_capacitor_value_query",
           arg |-> [capacitance |-> c, str_zero_fill |-> z]] :
             c \in Shapes(CapacitancePoints), z \in BOOLEAN}
    \cup {[fn |-> "build_capacitor_temperature_coefficient_query",
           arg |-> [temperature_coefficient |-> tc]] :
             tc \in TemperatureCoefficientShapes}
    \cup {[fn |-> "e_values_in_range", arg |-> [value_range |-> r]] :
             r \in Intervals(IntervalPoints)}
    \cup {[fn |-> "float_to_si", arg |-> [value |-> v, ties_up |-> t]] :
             v \in FloatPoints, t \in BOOLEAN}

InitBuild ==
    /\ catalog = <<>> /\ results = <<>> /\ error = "none" /\ ret = <<>>
    /\ last = NoCall
    /\ find = <<>>
    /\ \E call \in BuilderCalls : fn = call.fn /\ arg = call.arg
    /\ out = Pending

SpecBuild == InitBuild /\ [][NextBuild]_vars

----------------------------------------------------------------------------
\* The resolutions find_inductor, find_capacitor, find_resistor, find_mosfet.
\* A resolution is a straight-line program over the db object; it is modelled
\* as the sequence of its steps, find.pc being the step to run next. The text
\* of the predicate is not part of the state: what the SELECT matches is the
\* nondeterministic hit of the query step.

Step(op, what, param, attr_fn) ==
    [op |-> op, what |-> what, param |-> param, attr_fn |-> attr_fn]

\* find_inductor: the inductor_type test and get_category_id come first, the
\* predicate builders after them.
find_inductor ==
    << Step("check_inductor_type", "", "inductor_type", "id"),
       Step("get_category_id", "", "", "id"),
       Step("build", "build_inductor_case_size_query", "", "id"),
       Step("build", "build_inductor_tolerance_query", "", "id"),
       Step("query", "", "", "id"),
       Step("filter", "Inductance", "inductance", "id"),
       Step("filter", "Rated Current", "rated_current", "id"),
       Step("filter", "DC Resistance (DCR)", "dc_resistance", "id"),
       Step("filter", "Frequency - Self Resonant", "self_resonant_frequency", "id"),
       Step("sort", "", "", "id"),
       Step("log_result", "", "", "id") >>

\* find_capacitor: the five builders, then the catalog.
find_capacitor ==
    << Step("build", "build_capacitor_case_size_query", "", "id"),
       Step("build", "build_capacitor_value_query", "", "id"),
       Step("build", "build_capacitor_tolerance_query", "", "id"),
       Step("build", "build_capacitor_temperature_coefficient_query", "", "id"),
       Step("build", "build_capacitor_rated_voltage_query", "", "id"),
       Step("get_category_id", "", "", "id"),
       Step("query", "", "", "id"),
       Step("sort", "", "", "id"),
       Step("log_result", "", "", "id") >>

\* find_resistor: the three builders, the SELECT, resistor_filter, ranking.
\* It ranks with the function form of sort_by_basic_price, for which the
\* method of jlcpcb_db is taken.
find_resistor ==
    << Step("build", "build_resistor_case_size_query", "", "id"),
       Step("build", "build_resistor_value_query", "", "id"),
       Step("build", "build_resistor_tolerance_query", "", "id"),
       Step("query", "", "", "id"),
       Step("resistor_filter", "Power(Watts)", "rated_power", "id"),
       Step("sort", "", "", "id"),
       Step("log_result", "", "", "id") >>

\* find_mosfet: the package builder, the catalog, the six filters, ranking,
\* and the trait it attaches to cmp.
find_mosfet ==
    << Step("build", "build_mosfet_package_query", "", "id"),
       Step("get_category_id", "", "", "id"),
       Step("query", "", "", "id"),
       Step("filter_type", "Type", "channel_type", "id"),
       Step("filter", "Continuous Drain Current (Id)",
            "continuous_drain_current", "id"),
       Step("filter", "Drain Source Voltage (Vdss)", "drain_source_voltage", "id"),
       Step("filter", "Power Dissipation (Pd)", "power_dissipation", "id"),
       Step("filter", "Gate Threshold Voltage (Vgs(th)@Id)",
            "gate_source_threshold_voltage", "split_at"),
       Step("filter", "Drain Source On Resistance (RDS(on)@Vgs,Id)",
            "drain_source_resistance", "split_at"),
       Step("sort", "", "", "id"),
       Step("add_trait", "", "", "id"),
       Step("log_result", "", "", "id") >>

\* find_partnumber: one SELECT on a connection of its own.
find_partnumber ==
    << Step("lookup", "", "", "id") >>

Program(name) ==
    CASE name = "find_partnumber" -> find_partnumber
      [] name = "find_inductor" -> find_inductor
      [] name = "find_capacitor" -> find_capacitor
      [] name = "find_resistor" -> find_resistor
      [] name = "find_mosfet" -> find_mosfet

\* The builders whose text the model does not compute: whether they raise.

\* build_resistor_value_query: "else: raise NotImplementedError"
ResistorValueUnsupported(resistance) ==
    resistance.type \notin {"Constant", "Range"}

\* build_capacitor_temperature_coefficient_query
TemperatureCoefficientUnsupported(temperature_coefficient) ==
    temperature_coefficient.type \notin {"Constant", "Range"}

\* build_capacitor_rated_voltage_query: "if type(rated_voltage) is not Constant"
RatedVoltageUnsupported(rated_voltage) == rated_voltage.type # "Constant"

\* build_mosfet_package_query: "package is TBD" compares the parameter with
\* the class and is false of every parameter object, so only a Constant
\* passes.
MosfetPackageUnsupported(package) == package.type # "Constant"

NotImplementedIf(unsupported) ==
    IF unsupported THEN "NotImplementedError" ELSE "none"

\* What the builder of a build step raises on the component, or "none".
BuilderError(builder, cmp, str_zero_fill) ==
    CASE builder = "build_inductor_case_size_query" ->
             build_inductor_case_size_query(cmp.case_size).error
      [] builder = "build_inductor_tolerance_query" ->
             build_inductor_tolerance_query(cmp.inductance, cmp.tolerance).error
      [] builder = "build_capacitor_case_size_query" ->
             build_capacitor_case_size_query(cmp.case_size).error
      [] builder = "build_capacitor_value_query" ->
             build_capacitor_value_query(cmp.capacitance, str_zero_fill).error
      [] builder = "build_capacitor_tolerance_query" ->
             build_capacitor_tolerance_query(cmp.capacitance, cmp.tolerance).error
      [] builder = "build_capacitor_temperature_coefficient_query" ->
             NotImplementedIf(
                 TemperatureCoefficientUnsupported(cmp.temperature_coefficient))
      [] builder = "build_capacitor_rated_voltage_query" ->
             NotImplementedIf(RatedVoltageUnsupported(cmp.rated_voltage))
      [] builder = "build_resistor_case_size_query" ->
             build_resistor_case_size_query(cmp.case_size).error
      [] builder = "build_resistor_value_query" ->
             NotImplementedIf(ResistorValueUnsupported(cmp.resistance))
      [] builder = "build_resistor_tolerance_query" ->
             build_resistor_tolerance_query(cmp.resistance, cmp.tolerance).error
      [] builder = "build_mosfet_package_query" ->
             NotImplementedIf(MosfetPackageUnsupported(cmp.package))

\* The voltages list of build_capacitor_rated_voltage_query, in tenths of a
\* volt.
RatedVoltages == {25, 40, 63, 100, 160, 250, 350, 500, 630, 800, 1000, 1500}

\* Whether the clause a builder returns is the empty pair of parentheses
\* "()": the loop that ORs the fragments together added none.
BuilderClauseEmpty(builder, cmp, str_zero_fill) ==
    CASE builder = "build_inductor_case_size_query" ->
             build_inductor_case_size_query(cmp.case_size).frags = <<>>
      [] builder = "build_inductor_tolerance_query" ->
             build_inductor_tolerance_query(cmp.inductance, cmp.tolerance).frags = <<>>
      [] builder = "build_capacitor_case_size_query" ->
             build_capacitor_case_size_query(cmp.case_size).frags = <<>>
      [] builder = "build_capacitor_value_query" ->
             build_capacitor_value_query(cmp.capacitance, str_zero_fill).frags = <<>>
      [] builder = "build_capacitor_tolerance_query" ->
             build_capacitor_tolerance_query(cmp.capacitance, cmp.tolerance).frags = <<>>
      [] builder = "build_capacitor_temperature_coefficient_query" ->
             ~\E tc \in 1..8 :
                 /\ tc >= cmp.temperature_coefficient.min
                 /\ tc <= (IF cmp.temperature_coefficient.type = "Constant"
                           THEN 8 ELSE cmp.temperature_coefficient.max)
      [] builder = "build_capacitor_rated_voltage_query" ->
             ~\E voltage \in RatedVoltages : voltage >= 10 * cmp.rated_voltage.value
      [] builder = "build_resistor_case_size_query" ->
             build_resistor_case_size_query(cmp.case_size).frags = <<>>
      [] builder = "build_resistor_value_query" ->
             cmp.resistance.type = "Range" /\ e_series_in_range(cmp.resistance) = <<>>
      [] builder = "build_resistor_tolerance_query" ->
             build_resistor_tolerance_query(cmp.resistance, cmp.tolerance).frags = <<>>
      [] builder = "build_mosfet_package_query" -> FALSE

\* resistor_filter(query_result, rated_power): "-" and whatever does not
\* parse are passed over (bare except); a Constant keeps values above it, a
\* Range the values of the closed interval; anything else raises.
resistor_filter(query_result, rated_power) ==
    LET val(row) == PartVal(row, "Power(Watts)", "id")
        keep(row) ==
            /\ val(row).exc = "none"
            /\ IF rated_power.type = "Constant"
               THEN val(row).val > rated_power.value
               ELSE val(row).val >= rated_power.min /\ val(row).val <= rated_power.max
    IN  IF rated_power.type \in {"Constant", "Range"}
        THEN [results |-> SelectSeq(query_result, keep), error |-> "none"]
        ELSE [results |-> query_result, error |-> "NotImplementedError"]

\* log_result of each family: the parameter shapes it cannot print.
LogResultError(name, cmp) ==
    CASE name = "find_inductor" ->
             NotImplementedIf(cmp.tolerance.type \notin {"Constant", "Range"}
                              \/ cmp.inductance.type \notin {"Constant", "Range"})
      [] name = "find_capacitor" ->
             NotImplementedIf(cmp.tolerance.type \notin {"Constant", "Range"}
                              \/ cmp.capacitance.type \notin {"Constant", "Range"})
      [] name = "find_resistor" ->
             IF cmp.tolerance.type # "Constant" THEN "AssertionError"
             ELSE NotImplementedIf(cmp.resistance.type \notin {"Constant", "Range"})
      [] name = "find_mosfet" ->
             NotImplementedIf(
                 \/ cmp.channel_type.type # "Constant"
                 \/ \E f \in {"drain_source_resistance",
                              "gate_source_threshold_voltage",
                              "drain_source_voltage", "power_dissipation",
                              "continuous_drain_current"} :
                        cmp[f].type \notin {"Constant", "Range"})

\* The step a running resolution is at.
Running == find.pc # 0 /\ error = "none"

AtStep(op) == Running /\ Program(find.fn)[find.pc].op = op

\* find after the current step: on to the next one, or out of the function
\* when the step raised or was the last.
After(raised) ==
    [find EXCEPT !.pc = IF raised \/ find.pc = Len(Program(find.fn))
                        THEN 0 ELSE find.pc + 1]

\* "if type(cmp.inductor_type) != Constant: raise NotImplementedError", and
\* the else branch of the test on its value (Normal = 1, Power = 2).
CheckInductorType ==
    /\ AtStep("check_inductor_type")
    /\ error' = NotImplementedIf((find.cmp.inductor_type.type # "Constant"
                                 \/ find.cmp.inductor_type.value \notin {1, 2}))
    /\ find' = After((find.cmp.inductor_type.type # "Constant"
                                 \/ find.cmp.inductor_type.value \notin {1, 2}))
    /\ UNCHANGED <<catalog, results, ret, last, fn, arg, out>>

\* The ids of the categories table.
CategoryIds == {1, 2}

\* categories = db.get_category_id(category, subcategory): the first
\* catalog access. ids are the rows of "categories" whose names match; if
\* there is none, LookupError.
GetCategoryId(ids) ==
    /\ AtStep("get_category_id")
    /\ last' = [NoCall EXCEPT !.op = "get_category_id", !.hit = ids]
    /\ error' = IF ids = {} THEN "LookupError" ELSE "none"
    /\ find' = [After(ids = {}) EXCEPT !.accessed = TRUE,
                                       !.categories = ids]
    /\ UNCHANGED <<catalog, results, ret, fn, arg, out>>

\* One predicate builder on the component's parameters.
BuildPredicate ==
    /\ AtStep("build")
    /\ LET e == BuilderError(Program(find.fn)[find.pc].what, find.cmp,
                             find.str_zero_fill)
           empty == e = "none" /\ BuilderClauseEmpty(
                        Program(find.fn)[find.pc].what, find.cmp,
                        find.str_zero_fill)
       IN  /\ error' = e
           /\ find' = [After(e # "none") EXCEPT
                          !.empty_clause = find.empty_clause \/ empty]
    /\ UNCHANGED <<catalog, results, ret, last, fn, arg, out>>

\* "moq: int = ..." of the resolution called.
DefaultFloor(name) ==
    IF name = "find_partnumber" THEN PartnumberMoq ELSE DefaultMoq

\* "stock > {moq}" of the first-stage predicate: the rows it can match.
InStock == {i \in 1..Len(catalog) : catalog[i].stock > find.moq}

\* A query_category that stores the rows before it tests for none.
QueryRecordsStoresFirst(hit) ==
    /\ AtStep("query")
    /\ hit \subseteq InStock
    /\ last' = [NoCall EXCEPT !.op = "query_category", !.before = results,
                              !.hit = hit]
    /\ error' = IF hit = {} THEN "LookupError" ELSE "none"
    /\ results' = SubSeqAt(catalog, hit, 1)
    /\ find' = [After(hit = {}) EXCEPT !.accessed = TRUE,
                                       !.own = SubSeqAt(catalog, hit, 1)]
    /\ UNCHANGED <<catalog, ret, fn, arg, out>>

\* db.query_category(categories, query), and the SELECT of find_resistor.
\* A statement that holds an empty clause "()" does not parse: execute
\* raises sqlite3.OperationalError. Otherwise hit is the set of rows the
\* statement matches; none is a LookupError.
QueryRecords(hit) ==
    /\ AtStep("query")
    /\ hit \subseteq InStock
    /\ last' = [NoCall EXCEPT !.op = "query_category", !.before = results,
                              !.hit = IF find.empty_clause THEN {} ELSE hit]
    /\ error' = IF find.empty_clause THEN "OperationalError"
                ELSE IF hit = {} THEN "LookupError" ELSE "none"
    /\ results' = IF find.empty_clause \/ hit = {} THEN results
                  ELSE SubSeqAt(catalog, hit, 1)
    /\ find' = [After(find.empty_clause \/ hit = {}) EXCEPT
                   !.accessed = TRUE,
                   !.own = IF find.empty_clause THEN @
                           ELSE SubSeqAt(catalog, hit, 1)]
    /\ UNCHANGED <<catalog, ret, fn, arg, out>>

\* The place of a one-digit number or of null in the order of texts: "null"
\* comes after every digit.
TextRank(n) == IF n = Null THEN 10 ELSE n

RECURSIVE PriceTextLess(_, _)
\* "price ASC" on the price column, which holds the JSON text of the tiers:
\* texts are compared from the left, so the first tier that differs decides,
\* by its bound and then its price, and a text that is a prefix of another
\* comes first.
PriceTextLess(a, b) ==
    IF Len(b) = 0 THEN FALSE
    ELSE IF Len(a) = 0 THEN TRUE
    ELSE IF a[1] = b[1]
         THEN PriceTextLess(SubSeq(a, 2, Len(a)), SubSeq(b, 2, Len(b)))
    ELSE \/ TextRank(a[1].qTo) < TextRank(b[1].qTo)
         \/ a[1].qTo = b[1].qTo /\ a[1].price < b[1].price

\* "ORDER BY basic DESC, price ASC": row a comes strictly before row b.
OrderedBefore(a, b) ==
    \/ a.basic > b.basic
    \/ a.basic = b.basic /\ PriceTextLess(a.price.tiers, b.price.tiers)

\* find_partnumber(partnumber, moq): fetchone() of the rows in stock whose
\* mfr matches, ORDER BY basic DESC, price ASC; LookupError if there is none.
\* Rows that the order does not tell apart come in either order.
FindPartnumber(hit) ==
    /\ AtStep("lookup")
    /\ hit \subseteq InStock
    /\ last' = [NoCall EXCEPT !.op = "find_partnumber", !.before = results,
                              !.hit = hit]
    /\ IF hit = {}
       THEN error' = "LookupError" /\ UNCHANGED ret
       ELSE /\ error' = "none"
            /\ \E i \in hit :
                   /\ \A j \in hit : ~OrderedBefore(catalog[j], catalog[i])
                   /\ ret' = <<catalog[i]>>
    /\ find' = [After(TRUE) EXCEPT !.accessed = TRUE]
    /\ UNCHANGED <<catalog, results, fn, arg, out>>

\* db.filter_results_by_extra_json_attributes(key, cmp.<param>, attr_fn)
FilterByAttribute ==
    /\ AtStep("filter")
    /\ LET step == Program(find.fn)[find.pc]
           o == FilterResults(results, step.what, find.cmp[step.param],
                              step.attr_fn)
       IN  /\ last' = [NoCall EXCEPT !.op = "filter", !.key = step.what,
                                     !.value = find.cmp[step.param],
                                     !.attr_fn = step.attr_fn,
                                     !.before = results]
           /\ results' = o.results
           /\ error' = o.error
           /\ find' = After(o.error # "none")
    /\ UNCHANGED <<catalog, ret, fn, arg, out>>

\* The channel names find_mosfet filters "Type" for.
NChannel == <<"N", " ", "C", "h", "a", "n", "n", "e", "l">>
PChannel == <<"P", " ", "C", "h", "a", "n", "n", "e", "l">>

\* "if isinstance(cmp.channel_type, Constant)": the "Type" filter with
\* Constant("N Channel") or Constant("P Channel"), N_CHANNEL being 1.
FilterByChannelType ==
    /\ AtStep("filter_type")
    /\ LET value == Constant(IF find.cmp.channel_type.value = 1
                             THEN NChannel ELSE PChannel)
           o == IF find.cmp.channel_type.type = "Constant"
                THEN FilterResults(results, "Type", value, "id")
                ELSE [results |-> results, error |-> "none"]
       IN  /\ last' = IF find.cmp.channel_type.type = "Constant"
                      THEN [NoCall EXCEPT !.op = "filter", !.key = "Type",
                                          !.value = value, !.before = results]
                      ELSE last
           /\ results' = o.results
           /\ error' = o.error
           /\ find' = After(o.error # "none")
    /\ UNCHANGED <<catalog, ret, fn, arg, out>>

\* res = resistor_filter(res, cmp.rated_power)
ResistorFilter ==
    /\ AtStep("resistor_filter")
    /\ LET o == resistor_filter(results, find.cmp.rated_power)
       IN  /\ results' = o.results
           /\ error' = o.error
           /\ find' = After(o.error # "none")
    /\ last' = [NoCall EXCEPT !.op = "resistor_filter",
                              !.value = find.cmp.rated_power,
                              !.before = results]
    /\ UNCHANGED <<catalog, ret, fn, arg, out>>

\* part = db.sort_by_basic_price(quantity)
RankCandidates ==
    /\ AtStep("sort")
    /\ last' = [NoCall EXCEPT !.op = "sort", !.quantity = find.quantity,
                              !.before = results]
    /\ LET o == SortOutcome(results, find.quantity)
       IN  /\ results' = o.results
           /\ error' = o.error
           /\ ret' = o.ret
           /\ find' = After(o.error # "none")
    /\ UNCHANGED <<catalog, fn, arg, out>>

\* cmp.add_trait(has_simple_value_representation_defined(
\*     part["manufacturer_pn"]))
AddTrait ==
    /\ AtStep("add_trait")
    /\ find' = [After(FALSE) EXCEPT
                   !.traits = @ \cup {"has_simple_value_representation"}]
    /\ UNCHANGED <<catalog, results, error, ret, last, fn, arg, out>>

\* log_result(lcsc_pn, cmp), then "return lcsc_pn".
LogResult ==
    /\ AtStep("log_result")
    /\ error' = LogResultError(find.fn, find.cmp)
    /\ find' = After(TRUE)
    /\ UNCHANGED <<catalog, results, ret, last, fn, arg, out>>

NextFind ==
    \/ CheckInductorType
    \/ \E ids \in SUBSET CategoryIds : GetCategoryId(ids)
    \/ BuildPredicate
    \/ \E hit \in SUBSET (1..Len(catalog)) : QueryRecords(hit)
    \/ \E hit \in SUBSET (1..Len(catalog)) : FindPartnumber(hit)
    \/ FilterByAttribute
    \/ FilterByChannelType
    \/ ResistorFilter
    \/ RankCandidates
    \/ AddTrait
    \/ LogResult

\* A price list that is cheaper than TwoTiers up to TierBreak and dearer
\* above it.
RisingTiers == <<Tier(TierBreak, 1), Tier(Null, 2)>>

\* A price list without an unbounded tier.
BoundedTier == <<Tier(TierBreak, 1)>>

Text2(unit) == <<"2">> \o unit

\* The attributes the inductor filters read, "Rated Current" being given.
InductorAttributes(current) ==
    [k \in {"Inductance", "Rated Current", "DC Resistance (DCR)",
            "Frequency - Self Resonant"} |->
        CASE k = "Inductance" -> Text2(<<"H">>)
          [] k = "Rated Current" -> current
          [] k = "DC Resistance (DCR)" -> Text2(<<"Ω">>)
          [] k = "Frequency - Self Resonant" -> Text2(<<"H", "z">>)]

\* The attributes the MOSFET filters read.
MosfetAttributes(current) ==
    [k \in {"Type", "Continuous Drain Current (Id)",
            "Drain Source Voltage (Vdss)", "Power Dissipation (Pd)",
            "Gate Threshold Voltage (Vgs(th)@Id)",
            "Drain Source On Resistance (RDS(on)@Vgs,Id)"} |->
        CASE k = "Type" -> NChannel
          [] k = "Continuous Drain Current (Id)" -> current
          [] k = "Drain Source Voltage (Vdss)" -> Text2(<<"V">>)
          [] k = "Power Dissipation (Pd)" -> Text2(<<"W">>)
          [] k = "Gate Threshold Voltage (Vgs(th)@Id)" ->
                 Text2(<<"V", "@", "1", "A">>)
          [] k = "Drain Source On Resistance (RDS(on)@Vgs,Id)" ->
                 Text2(<<"Ω", "@", "4", "V", ",", "1", "A">>)]

\* Per family, a candidate whose attributes parse, the same with a stock
\* that is not above the default floor, and one that carries the "-" marker
\* and a price list without an unbounded tier; for the part-number lookup
\* also one with another price list.
FindRows(name) ==
    LET attrs(text) ==
            CASE name = "find_inductor" -> InductorAttributes(text)
              [] name = "find_mosfet" -> MosfetAttributes(text)
              [] name = "find_resistor" -> [k \in {"Power(Watts)"} |-> text]
              [] name = "find_capacitor" -> <<>>
              [] name = "find_partnumber" -> <<>>
        parsable == Row(0, 1, PriceJson(TwoTiers), ExtraAttributes(attrs(Text2A)))
    IN  {parsable,
         [parsable EXCEPT !.stock = DefaultFloor(name)],
         [Row(0, 0, PriceJson(BoundedTier), ExtraAttributes(attrs(<<"-">>)))
             EXCEPT !.stock = DefaultFloor(name) + 1]}
        \cup (IF name = "find_partnumber"
              THEN {[parsable EXCEPT !.price = PriceJson(RisingTiers)]}
              ELSE {})

\* The parameter shapes a component field is drawn from.
Inductors ==
    [inductor_type : {Constant(1), TBD},
     case_size : {Constant(3), TBD},
     inductance : {Constant(2), TBD},
     tolerance : {Constant(2000), Range(1000, 2000), TBD},
     rated_current : {Constant(1), Constant(2), Range(1, MaxValue), TBD},
     dc_resistance : {Range(1, MaxValue)},
     self_resonant_frequency : {TBD}]

Capacitors ==
    [case_size : {Constant(3), TBD},
     capacitance : {Constant(10000), Range(8000, 12000), TBD},
     tolerance : {Constant(2000), Range(1000, 2000), TBD},
     temperature_coefficient : {Range(6, 8), TBD},
     rated_voltage : {Constant(16), Range(16, 25)}]

Resistors ==
    [case_size : {Constant(3), TBD},
     resistance : {Constant(100), TBD},
     tolerance : {Constant(100), Range(100, 500)},
     rated_power : {Constant(1), Range(1, MaxValue), TBD}]

Mosfets ==
    [package : {Constant(1), TBD},
     channel_type : {Constant(1), TBD},
     continuous_drain_current : {Constant(2), Range(1, MaxValue), TBD},
     drain_source_voltage : {Range(1, MaxValue)},
     power_dissipation : {Range(1, MaxValue), TBD},
     gate_source_threshold_voltage : {Range(1, MaxValue)},
     drain_source_resistance : {Range(1, MaxValue)}]

Partnumbers == [partnumber : {<<"X">>}]

Components(name) ==
    CASE name = "find_partnumber" -> Partnumbers
      [] name = "find_inductor" -> Inductors
      [] name = "find_capacitor" -> Capacitors
      [] name = "find_resistor" -> Resistors
      [] name = "find_mosfet" -> Mosfets

\* A resolution about to run its first step. pick_part runs every
\* resolution on one db object, so self.results is empty or holds the
\* ranked candidate an earlier resolution left. find.given is the component
\* as the caller handed it over.
InitFind ==
    /\ results \in {<<>>, <<Row(0, 1, PriceFloat(1), ExtraAttributes(<<>>))>>}
    /\ error = "none" /\ ret = <<>> /\ last = NoCall
    /\ fn = "none" /\ arg = <<>> /\ out = <<>>
    /\ \E name \in {"find_inductor", "find_capacitor", "find_resistor",
                    "find_mosfet", "find_partnumber"} :
           /\ catalog \in Catalogs(FindRows(name))
           /\ \E call \in [fn : {name}, pc : {1}, accessed : {FALSE},
                             empty_clause : {FALSE}, categories : {{}},
                             moq : {0, DefaultFloor(name)},
                             quantity : {1, MaxQuantity},
                             cmp : Components(name),
                             traits : {{}},
                             own : {<<>>},
                             str_zero_fill : IF name = "find_capacitor"
                                             THEN BOOLEAN ELSE {TRUE}] :
                  find = call @@ [given |-> [cmp |-> call.cmp,
                                             traits |-> call.traits]]

SpecFind == InitFind /\ [][NextFind]_vars

----------------------------------------------------------------------------
\* Claims about ranking (sort_by_basic_price), checked under Spec.

\* Price tiers as the data model has them: ascending bounded bands, then
\* one unbounded tier.
WellFormedTiers(tiers) ==
    /\ Len(tiers) >= 1
    /\ tiers[Len(tiers)].qTo = Null
    /\ \A j \in 1..(Len(tiers) - 1) : tiers[j].qTo # Null
    /\ \A j \in 1..(Len(tiers) - 2) : tiers[j].qTo < tiers[j + 1].qTo

\* The unit price the specification gives a candidate at a quantity: that of
\* the first tier whose bound reaches the quantity, else of the last tier.
SpecTierPrice(tiers, quantity) ==
    LET reach == {j \in 1..Len(tiers) :
                     tiers[j].qTo # Null /\ tiers[j].qTo >= quantity}
    IN  IF reach = {} THEN tiers[Len(tiers)].price
        ELSE tiers[CHOOSE j \in reach : \A k \in reach : j <= k].price

\* The last call ranked candidates that all carry well-formed tiers.
RankedWellFormed ==
    /\ last.op = "sort"
    /\ \A i \in 1..Len(last.before) :
           /\ ~last.before[i].price.isfloat
           /\ WellFormedTiers(last.before[i].price.tiers)

\* C1: ranking prices every candidate with well-formed tiers at the unit
\* price of the first tier whose bound is >= the quantity, or of the final
\* unbounded tier when no bounded tier reaches it; no candidate is dropped
\* and no error is raised.
C1_TierPriceSelected ==
    RankedWellFormed =>
        /\ error = "none"
        /\ \A i \in 1..Len(last.before) :
               \E j \in 1..Len(results) :
                   /\ results[j].lcsc_pn = last.before[i].lcsc_pn
                   /\ results[j].price =
                          PriceFloat(SpecTierPrice(last.before[i].price.tiers,
                                                   last.quantity))

\* C2: for a non-empty candidate set, ranking returns a candidate that is
\* preferred whenever any candidate is, that no candidate with the same
\* preferred flag undercuts at the quantity, and that is the earliest in
\* input order among those that tie with it.
C2_PreferredThenCheapest ==
    (RankedWellFormed /\ last.before # <<>>) =>
        /\ error = "none"
        /\ Len(ret) = 1
        /\ LET before == last.before
               priceOf(i) == SpecTierPrice(before[i].price.tiers, last.quantity)
               at == CHOOSE i \in 1..Len(before) : before[i].lcsc_pn = ret[1].lcsc_pn
           IN  /\ (\E i \in 1..Len(before) : before[i].basic = 1) => ret[1].basic = 1
               /\ \A i \in 1..Len(before) :
                      before[i].basic = ret[1].basic => priceOf(i) >= priceOf(at)
               /\ \A i \in 1..Len(before) :
                      (before[i].basic = ret[1].basic /\ priceOf(i) = priceOf(at))
                          => at <= i

\* What holds of sort_by_basic_price as written: when it returns, C2's
\* ordering holds of the candidate it returns.
RankOrderWhenReturned ==
    (RankedWellFormed /\ last.before # <<>> /\ error = "none") =>
        /\ Len(ret) = 1
        /\ LET before == last.before
               priceOf(i) == SpecTierPrice(before[i].price.tiers, last.quantity)
               at == CHOOSE i \in 1..Len(before) : before[i].lcsc_pn = ret[1].lcsc_pn
           IN  /\ (\E i \in 1..Len(before) : before[i].basic = 1) => ret[1].basic = 1
               /\ \A i \in 1..Len(before) :
                      before[i].basic = ret[1].basic => priceOf(i) >= priceOf(at)
               /\ \A i \in 1..Len(before) :
                      (before[i].basic = ret[1].basic /\ priceOf(i) = priceOf(at))
                          => at <= i

----------------------------------------------------------------------------
\* Claims about the attribute filter, checked under SpecFilter.

\* The last call filtered with a Constant or a Range constraint.
FilteredByConstraint ==
    last.op = "filter" /\ last.value.type \in {"Constant", "Range"}

\* What the last filter call parsed out of a row.
LastPartVal(part) == PartVal(part, last.key, last.attr_fn)

Survives(part) == \E j \in 1..Len(results) : results[j].lcsc_pn = part.lcsc_pn

\* Exact: equality; Bounded: the closed interval.
SatisfiesConstraint(x, value) ==
    IF value.type = "Constant" THEN x = value.value
    ELSE value.min <= x /\ x <= value.max

\* C6: the filter keeps a candidate whose attribute parses to x iff x = v for
\* Exact(v) and iff min <= x <= max for Bounded(min, max); a value equal to
\* min or to max is kept.
C6_KeptIffInClosedInterval ==
    FilteredByConstraint =>
        \A i \in 1..Len(last.before) :
            LastPartVal(last.before[i]).exc = "none" =>
                (Survives(last.before[i])
                    <=> SatisfiesConstraint(LastPartVal(last.before[i]).val,
                                            last.value))

Parsable(part) == LastPartVal(part).exc = "none"

\* C7: a candidate whose blob is malformed, lacks "attributes" or the key, or
\* holds an unparsable value is removed without an exception reaching the
\* caller, and the other candidates are evaluated as if it were not there.
C7_UnparsableRemovedQuietly ==
    FilteredByConstraint =>
        /\ error = "none"
        /\ \A j \in 1..Len(results) : Parsable(results[j])
        /\ results = FilterResults(SelectSeq(last.before, Parsable), last.key,
                                   last.value, last.attr_fn).results

\* A candidate holding the "-" marker came first and the next one was kept.
C7_Witness ==
    /\ FilteredByConstraint
    /\ Len(last.before) >= 2
    /\ LastPartVal(last.before[1]).exc = "SiParseError"
    /\ Survives(last.before[2])

----------------------------------------------------------------------------
\* Claims about the predicate builders, checked under SpecBuild.

ToleranceBuilders ==
    {"build_resistor_tolerance_query", "build_capacitor_tolerance_query",
     "build_inductor_tolerance_query"}

\* The label table of the tolerance builder called last.
LastToleranceTable ==
    CASE fn = "build_resistor_tolerance_query" -> ResistorTolerances
      [] fn = "build_capacitor_tolerance_query" -> CapacitorTolerances
      [] fn = "build_inductor_tolerance_query" -> InductorTolerances

\* The selection rule: deviation <= max% of v, and > min% of v only where a
\* minimum is specified (a Range tolerance).
AcceptedBySelectionRule(entry, v, tolerance) ==
    /\ ToleranceAbs(entry, v) <= MaxToleranceOf(tolerance) * v
    /\ tolerance.type = "Range" => ToleranceAbs(entry, v) > tolerance.min * v

\* C5: a tolerance builder that returns accepts a label iff its deviation at
\* the nominal value v is <= max% of v and, for a Range tolerance only,
\* > min% of v; a Constant tolerance t accepts every label up to t%.
C5_LabelAcceptedIffWithinTolerance ==
    (fn \in ToleranceBuilders /\ out.error = "none") =>
        Elements(out.frags) =
            {e.label : e \in {x \in Elements(LastToleranceTable) :
                AcceptedBySelectionRule(x, NominalOf(arg.nominal), arg.tolerance)}}

\* What holds of the resistor builder as written: C5's rule.
ResistorLabelAcceptedIffWithinTolerance ==
    (fn = "build_resistor_tolerance_query" /\ out.error = "none") =>
        Elements(out.frags) =
            {e.label : e \in {x \in Elements(ResistorTolerances) :
                AcceptedBySelectionRule(x, NominalOf(arg.nominal), arg.tolerance)}}

CaseSizeBuilders ==
    {"build_resistor_case_size_query", "build_capacitor_case_size_query",
     "build_inductor_case_size_query"}

\* The size codes of a family in declared order: four or five digits.
SizeCodes ==
    << <<"0", "1", "0", "0", "5">>, <<"0", "2", "0", "1">>,
       <<"0", "4", "0", "2">>, <<"0", "6", "0", "3">>,
       <<"0", "8", "0", "5">>, <<"1", "0", "0", "8">>,
       <<"1", "2", "0", "6">>, <<"1", "2", "1", "0">>,
       <<"1", "8", "0", "6">>, <<"1", "8", "1", "2">>,
       <<"1", "8", "2", "5">>, <<"2", "0", "1", "0">>,
       <<"2", "5", "1", "2">> >>

\* C8: a case-size builder yields, for a Constant, exactly one fragment and,
\* for a Range(min, max), one fragment per enum member from min to max in
\* declared order and no other; each fragment is the bare size code.
C8_OneSizeCodePerMemberInRange ==
    (fn \in CaseSizeBuilders /\ out # Pending
        /\ arg.case_size.type \in {"Constant", "Range"}) =>
        /\ out.error = "none"
        /\ out.frags = [i \in 1..(arg.case_size.max - arg.case_size.min + 1) |->
                           SizeCodes[arg.case_size.min + i - 1]]

\* What holds of the resistor and capacitor builders as written: C8's rule.
ResistorCapacitorSizeCodes ==
    (fn \in {"build_resistor_case_size_query", "build_capacitor_case_size_query"}
        /\ out # Pending /\ arg.case_size.type \in {"Constant", "Range"}) =>
        /\ out.error = "none"
        /\ out.frags = [i \in 1..(arg.case_size.max - arg.case_size.min + 1) |->
                           SizeCodes[arg.case_size.min + i - 1]]

\* The capacitances (pF) a value query searches for.
SearchedCapacitances(capacitance) ==
    IF capacitance.type = "Constant" THEN {capacitance.value}
    ELSE Elements(e_series_in_range(capacitance))

\* 10 nF <= C < 1 uF
InTwoSpellingBand(c) == 10000 <= c /\ c < 1000000

\* The n-prefixed token of a whole number of nF.
NanoToken(c) == IntText(c \div 1000) \o <<"n", "F">>

\* The u-prefixed token of the same magnitude: 0.nnn with the nF count
\* right-aligned in three places, trailing zeros dropped.
MicroToken(c) ==
    LET digits == IntText(c \div 1000)
        padded == [i \in 1..(3 - Len(digits)) |-> "0"] \o digits
    IN  RStripChars(<<"0", ".">> \o padded, {"0"}) \o <<"u", "F">>

\* C9: for every capacitance searched for in 10 nF <= C < 1 uF, from a
\* Constant or from the standard values of a Range, the predicate holds the
\* n-prefixed token and the numerically equal u-prefixed token.
C9_BothSpellingsInBand ==
    (fn = "build_capacitor_value_query" /\ out # Pending
        /\ arg.capacitance.type \in {"Constant", "Range"}) =>
        \A c \in {x \in SearchedCapacitances(arg.capacitance) : InTwoSpellingBand(x)} :
            /\ NanoToken(c) \in Elements(out.frags)
            /\ MicroToken(c) \in Elements(out.frags)

\* Every value m * 10^e of the mantissa tables inside the interval.
StandardValuesIn(value_range) ==
    {v \in {m * Pow10(e - 2) : m \in Elements(e_values), e \in 2..(MaxDecade + 1)} :
        value_range.min <= v /\ v <= value_range.max}

\* C10: e_values_in_range returns every value m * 10^e of the mantissa
\* tables with min <= m * 10^e <= max, a max that is a power of ten and an
\* interval with min = max on a standard value included.
C10_EveryStandardValueInInterval ==
    (fn = "e_values_in_range" /\ out # Pending) =>
        Elements(out.frags) = StandardValuesIn(arg.value_range)

\* What holds of e_values_in_range as written: it returns standard values of
\* the interval only, and all of them below the decade of the upper bound.
EValuesBelowTopDecade ==
    (fn = "e_values_in_range" /\ out # Pending) =>
        /\ Elements(out.frags) \subseteq StandardValuesIn(arg.value_range)
        /\ \A v \in StandardValuesIn(arg.value_range) :
               v < Pow10(CeilLog10(arg.value_range.max)) => v \in Elements(out.frags)

----------------------------------------------------------------------------
\* Claims about the resolutions, checked under SpecFind.

\* The resolutions that rank with db.sort_by_basic_price.
RanksWithDb == find.fn \in {"find_inductor", "find_capacitor", "find_mosfet"}

\* No candidate reaches the ranking of the last call: the set was empty on
\* entry, or no price tier of any candidate reaches the quantity.
NoCandidateAtRanking ==
    /\ RanksWithDb
    /\ last.op = "sort"
    /\ \A i \in 1..Len(last.before) :
           \A j \in 1..Len(last.before[i].price.tiers) :
               /\ last.before[i].price.tiers[j].qTo # Null
               /\ last.before[i].price.tiers[j].qTo < last.quantity

\* C3: a resolution whose ranking has no candidate ends in the NotFound
\* error, LookupError, and with no part.
C3_EmptyRankingIsNotFound ==
    NoCandidateAtRanking => (error = "LookupError" /\ ret = <<>>)

\* What holds of the resolutions as written: ranking without a candidate
\* returns no part and ends in the IndexError of self.results[0].
EmptyRankingIsIndexError ==
    NoCandidateAtRanking => (error = "IndexError" /\ ret = <<>>)

\* C4: the unsupported-constraint error, NotImplementedError, is raised
\* before the first catalog access of a resolution only, never after one.
C4_UnsupportedBeforeCatalogAccess ==
    ~(error = "NotImplementedError" /\ find.accessed)

\* What holds of find_capacitor as written: C4's order.
CapacitorUnsupportedBeforeCatalogAccess ==
    find.fn = "find_capacitor" => ~(error = "NotImplementedError" /\ find.accessed)

\* C11: every value e_values_in_range returns lies in the closed interval
\* [min, max], and no value occurs twice in the result.
C11_InIntervalWithoutDuplicates ==
    (fn = "e_values_in_range" /\ out # Pending) =>
        /\ \A i \in 1..Len(out.frags) :
               arg.value_range.min <= out.frags[i]
                   /\ out.frags[i] <= arg.value_range.max
        /\ \A i \in 1..Len(out.frags) : \A j \in 1..Len(out.frags) :
               out.frags[i] = out.frags[j] => i = j

\* A result that holds 1000, whose mantissa is in all four tables, among
\* other values.
C11_Witness ==
    /\ fn = "e_values_in_range" /\ out # Pending
    /\ Pow10(3) \in Elements(out.frags)
    /\ Len(out.frags) >= 2

\* The tolerance builder of the running resolution found no label for the
\* component's nominal value and tolerance.
NoToleranceLabelQualifies ==
    LET built ==
            CASE find.fn = "find_inductor" ->
                     build_inductor_tolerance_query(find.cmp.inductance,
                                                    find.cmp.tolerance)
              [] find.fn = "find_capacitor" ->
                     build_capacitor_tolerance_query(find.cmp.capacitance,
                                                     find.cmp.tolerance)
              [] find.fn = "find_resistor" ->
                     build_resistor_tolerance_query(find.cmp.resistance,
                                                    find.cmp.tolerance)
              [] OTHER -> Raised("none built")
    IN  built.error = "none" /\ built.frags = <<>>

\* C12: when no tolerance label qualifies, the clause built is well formed
\* and always false: the query step runs, matches no record and the
\* resolution ends in LookupError, never in an error of the query itself.
C12_NoLabelIsEmptyCandidateSet ==
    (NoToleranceLabelQualifies /\ last.op = "query_category") =>
        error = "LookupError"

\* What holds of the resolutions as written: the query with the clause of a
\* tolerance builder that found no label ends in the OperationalError of
\* the statement.
NoLabelIsQueryError ==
    (NoToleranceLabelQualifies /\ last.op = "query_category") =>
        error = "OperationalError"

\* C13: get_category_id raises LookupError when no category matches and
\* returns the matching ids otherwise; query_category raises LookupError
\* when no record matches and leaves the candidate set as it was, and
\* returns the matching records otherwise; neither returns an empty list.
C13_EmptyResultIsLookupError ==
    /\ last.op = "get_category_id" =>
           IF last.hit = {}
           THEN error = "LookupError"
           ELSE find.categories = last.hit /\ find.categories # {}
    /\ (last.op = "query_category" /\ ~find.empty_clause) =>
           IF last.hit = {}
           THEN error = "LookupError" /\ results = last.before
           ELSE error = "none" /\ results = SubSeqAt(catalog, last.hit, 1)
                    /\ results # <<>>

\* A query that matched no record on a db object that still held the
\* candidate of an earlier resolution.
C13_Witness ==
    /\ last.op = "query_category" /\ ~find.empty_clause
    /\ last.hit = {}
    /\ error = "LookupError"
    /\ results # <<>>


\* The candidate set on which the last ranking ran is one that a ranking
\* left: non-empty, every price already the float of that ranking, in
\* ranked order.
RankedAgain ==
    /\ last.op = "sort"
    /\ last.before # <<>>
    /\ \A i \in 1..Len(last.before) : last.before[i].price.isfloat
    /\ Sorted(last.before) = last.before

\* C14: ranking is idempotent: sort_by_basic_price called again on the
\* candidate set the first call left succeeds, leaves the set as it was and
\* returns the same candidate, the first of that set.
C14_RankingIdempotent ==
    RankedAgain =>
        /\ error = "none"
        /\ results = last.before
        /\ ret = <<last.before[1]>>

\* What holds of sort_by_basic_price as written: the second call reads the
\* float the first call stored in place of the price JSON and raises
\* TypeError, leaving the set as it was and returning nothing.
RankedAgainIsTypeError ==
    RankedAgain =>
        /\ error = "TypeError"
        /\ results = last.before
        /\ ret = <<>>


\* The tolerance of a call with its maximum raised to p and its minimum, if
\* the shape has one of its own, kept.
WithMaxTolerance(tolerance, p) ==
    IF tolerance.type = "Constant" THEN Constant(p)
    ELSE Range(tolerance.min, p)

\* The tolerance builder named name applied to a nominal and a tolerance.
ToleranceBuilder(name, nominal, tolerance) ==
    CASE name = "build_resistor_tolerance_query" ->
             build_resistor_tolerance_query(nominal, tolerance)
      [] name = "build_capacitor_tolerance_query" ->
             build_capacitor_tolerance_query(nominal, tolerance)
      [] name = "build_inductor_tolerance_query" ->
             build_inductor_tolerance_query(nominal, tolerance)

\* A tolerance builder has returned a clause for a positive nominal value.
ToleranceClauseBuilt ==
    /\ fn \in ToleranceBuilders
    /\ out # Pending /\ out.error = "none"
    /\ NominalOf(arg.nominal) > 0

StageConstraints ==
    {[key |-> k, value |-> v, attr_fn |-> f] :
        k \in Keys, v \in {w \in FilterValues : w.min <= w.max},
        f \in {"id", "split_at"}}

\* One filter stage on a candidate set.
Stage(rows, c) == FilterResults(rows, c.key, c.value, c.attr_fn)

\* The constraint of the filter stage that ran last.
LastStage == [key |-> last.key, value |-> last.value, attr_fn |-> last.attr_fn]

\* C16: filter stages commute: stage B on the set stage A left gives the
\* candidates, in the order, that stage A gives on the set stage B leaves.
C16_FilterStagesCommute ==
    (last.op = "filter" /\ error = "none") =>
        \A B \in StageConstraints :
            Stage(results, B) = Stage(Stage(last.before, B).results, LastStage)

\* Stage A kept the first of two candidates only, and some stage B keeps the
\* second only.
C16_Witness ==
    /\ last.op = "filter" /\ error = "none"
    /\ Len(last.before) = 2
    /\ results = <<last.before[1]>>
    /\ \E B \in StageConstraints :
           Stage(last.before, B).results = <<last.before[2]>>


\* The rated-current stage of an inductor resolution has just run with a
\* Constant requirement.
RatedCurrentStageRan ==
    /\ find.fn = "find_inductor"
    /\ last.op = "filter" /\ last.key = "Rated Current"
    /\ last.value.type = "Constant"

\* C17: a candidate passes the rated-current stage of an inductor
\* resolution iff its parsed rated current is >= the required value, so one
\* whose rated current exceeds or equals the requirement is kept.
C17_RatedCurrentAtLeastRequired ==
    RatedCurrentStageRan =>
        \A i \in 1..Len(last.before) :
            LET pv == PartVal(last.before[i], "Rated Current", "id")
            IN  pv.exc = "none" =>
                    (last.before[i] \in Elements(results)
                         <=> pv.val >= last.value.value)

\* What holds of the stage as written: a Constant requirement keeps the
\* candidates whose parsed rated current equals it and no other.
RatedCurrentKeptIffEqual ==
    RatedCurrentStageRan =>
        \A i \in 1..Len(last.before) :
            LET pv == PartVal(last.before[i], "Rated Current", "id")
            IN  last.before[i] \in Elements(results)
                    <=> (pv.exc = "none" /\ pv.val = last.value.value)


\* abs(back - value) <= abs(value) / 100, both being decimal fractions.
WithinOnePercent(value, back) ==
    LET e == IF value.exp < back.exp THEN value.exp ELSE back.exp
        a == value.digits * Pow10(value.exp - e)
        b == back.digits * Pow10(back.exp - e)
    IN  /\ value.neg = back.neg
        /\ 100 * (IF a > b THEN a - b ELSE b - a) <= a

\* C18: for a finite non-zero value of magnitude 1e-15 .. 1e9,
\* si_to_float(float_to_si(value)) is within 1% of value; float_to_si never
\* emits the micro sign; float_to_si(+inf) is the infinity sign and
\* float_to_si(-inf) is '-' and the infinity sign.
C18_RoundTripWithinOnePercent ==
    (fn = "float_to_si" /\ out # Pending) =>
        /\ "µ" \notin Elements(out.frags[1])
        /\ arg.value.inf =>
               out.frags[1] = (IF arg.value.neg THEN <<"-", InfinitySign>>
                               ELSE <<InfinitySign>>)
        /\ ~arg.value.inf => error = "none"
        /\ ret # <<>> => WithinOnePercent(arg.value, ret[1])

\* A value of the micro range that float_to_si rounded and si_to_float read
\* back as another number.
C18_Witness ==
    /\ fn = "float_to_si" /\ ret # <<>>
    /\ "u" \in Elements(out.frags[1])
    /\ ret[1].digits * Pow10(ret[1].exp - arg.value.exp) # arg.value.digits


\* The parts a first-stage predicate has just selected: the candidate set
\* of a resolution, the part of the part-number lookup.
FirstStageSelected ==
    IF last.op = "query_category" /\ error = "none" THEN Elements(results)
    ELSE IF last.op = "find_partnumber" /\ error = "none" THEN Elements(ret)
    ELSE {}

\* C19: the stock floor of every first-stage predicate is never below the
\* default of the resolution, whatever the caller passes: every selected
\* part has a stock above that default.
C19_StockAboveDefaultFloor ==
    \A part \in FirstStageSelected : part.stock > DefaultFloor(find.fn)

\* What holds of the first-stage predicates as written: every one contains
\* "stock > {moq}", so every selected part has a stock above the floor the
\* caller passed.
StockAboveCallerFloor ==
    \A part \in FirstStageSelected : part.stock > find.moq


\* C20: a resolution leaves the component it was given unchanged, its
\* parameter fields and its attached traits, while it runs and after it has
\* returned or raised.
C20_ComponentUnchanged ==
    /\ find.cmp = find.given.cmp
    /\ find.traits = find.given.traits

\* What holds of the resolutions as written: the parameter fields are never
\* written, and the traits change only in a find_mosfet that has ranked a
\* candidate, which attaches the value representation to cmp.
OnlyFindMosfetAttachesTrait ==
    /\ find.cmp = find.given.cmp
    /\ find.traits # find.given.traits =>
           /\ find.fn = "find_mosfet" /\ ret # <<>>
           /\ find.traits = find.given.traits
                                \cup {"has_simple_value_representation"}


----------------------------------------------------------------------------
\* Two resolutions on the one jlcpcb_db object of pick_part, their calls
\* interleaved. find[p] is resolution p: the call it is at, its constraint,
\* the rows its own query returned, the part it selected and what it raised.
\* self.results is the one list of the db object.

Resolutions == {1, 2}

\* Catalog rows that differ in preferred flag and rated current.
PairRows ==
    {Row(0, basic, PriceJson(TwoTiers),
         ExtraAttributes([k \in {"Rated Current"} |-> t])) :
        basic \in {0, 1}, t \in {Text2A, <<"-">>}}

InitPair ==
    /\ catalog \in Catalogs(PairRows)
    /\ results = <<>> /\ error = "none" /\ ret = <<>> /\ last = NoCall
    /\ fn = "none" /\ arg = <<>> /\ out = <<>>
    /\ find \in [Resolutions -> [pc : {"query"}, value : {Constant(2), TBD},
                                 own : {<<>>}, part : {<<>>},
                                 error : {"none"}]]

\* db.query_category(categories, query) of resolution p
PairQuery(p, hit) ==
    /\ find[p].pc = "query"
    /\ IF hit = {}
       THEN /\ find' = [find EXCEPT ![p].pc = "failed",
                                    ![p].error = "LookupError"]
            /\ UNCHANGED results
       ELSE /\ results' = SubSeqAt(catalog, hit, 1)
            /\ find' = [find EXCEPT ![p].pc = "filter",
                                    ![p].own = SubSeqAt(catalog, hit, 1)]
    /\ UNCHANGED <<catalog, error, ret, last, fn, arg, out>>

\* db.filter_results_by_extra_json_attributes("Rated Current", value) of p
PairFilter(p) ==
    /\ find[p].pc = "filter"
    /\ results' = FilterResults(results, "Rated Current", find[p].value, "id").results
    /\ find' = [find EXCEPT ![p].pc = "sort"]
    /\ UNCHANGED <<catalog, error, ret, last, fn, arg, out>>

\* part = db.sort_by_basic_price(quantity) of resolution p
PairRank(p) ==
    /\ find[p].pc = "sort"
    /\ LET o == SortOutcome(results, 1)
       IN  /\ results' = o.results
           /\ find' = [find EXCEPT ![p].pc = IF o.error = "none" THEN "done"
                                             ELSE "failed",
                                   ![p].part = o.ret,
                                   ![p].error = o.error]
    /\ UNCHANGED <<catalog, error, ret, last, fn, arg, out>>

NextPair ==
    \/ \E p \in Resolutions, hit \in SUBSET (1..Len(catalog)) : PairQuery(p, hit)
    \/ \E p \in Resolutions : PairFilter(p)
    \/ \E p \in Resolutions : PairRank(p)

SpecPair == InitPair /\ [][NextPair]_vars

\* What resolution p selects from the rows of its own query when it runs
\* alone: its filter, then its ranking.
Alone(p) ==
    SortOutcome(FilterResults(find[p].own, "Rated Current", find[p].value,
                              "id").results, 1)

\* The part numbers of a selection.
PartNumbers(rows) == {rows[i].lcsc_pn : i \in 1..Len(rows)}

\* Resolution p has filtered and ranked.
Ranked(p) == find[p].pc \in {"done", "failed"} /\ find[p].own # <<>>

\* C21: two interleaved resolutions on the same db object share no mutable
\* state: each one ends as it ends when run alone on the rows of its own
\* query, with the same part.
C21_InterleavedAsAlone ==
    \A p \in Resolutions :
        Ranked(p) =>
            /\ find[p].error = Alone(p).error
            /\ PartNumbers(find[p].part) = PartNumbers(Alone(p).ret)

\* What holds of the db object as written: a resolution ends as it does
\* alone when the other one has not made its query yet.
AsAloneBeforeTheOtherStarts ==
    \A p \in Resolutions :
        (Ranked(p) /\ \A q \in Resolutions \ {p} : find[q].pc = "query") =>
            /\ find[p].error = Alone(p).error
            /\ PartNumbers(find[p].part) = PartNumbers(Alone(p).ret)


\* The fixed part-number lookup has returned a part.
PartnumberFound == last.op = "find_partnumber" /\ error = "none"

\* C22: the part-number lookup evaluates the price tiers at the requested
\* quantity: among the matching records, the one chosen has the best
\* preferred flag and, among those, the lowest tier price at that quantity.
C22_LookupCheapestAtQuantity ==
    PartnumberFound =>
        \A j \in last.hit :
            /\ catalog[j].basic <= ret[1].basic
            /\ catalog[j].basic = ret[1].basic =>
                   SpecTierPrice(ret[1].price.tiers, find.quantity)
                       <= SpecTierPrice(catalog[j].price.tiers, find.quantity)

\* What holds of the lookup as written: the part chosen has the best
\* preferred flag and, among those, a price text that no other follows in
\* the order of texts, whatever the quantity.
LookupFirstInTextOrder ==
    PartnumberFound =>
        \A j \in last.hit : ~OrderedBefore(catalog[j], ret[1])


----------------------------------------------------------------------------
\* inductor_filter, the version that deletes rows from query_result while it
\* iterates over it.

\* del query_result[i]
RemoveAt(rows, i) == SubSeq(rows, 1, i - 1) \o SubSeq(rows, i + 1, Len(rows))

\* Whether the body of one loop deletes the row, by stage and by the shape of
\* the constraint. An exception of the try block deletes the row as well;
\* the Constant branch of the DC-resistance stage calls si_to_float on the
\* float it has just parsed, which raises for every row.
StageDeletes(row, key, value) ==
    LET pv == PartVal(row, key, "id")
    IN  \/ pv.exc # "none"
        \/ IF value.type = "Range"
           THEN pv.val < value.min \/ pv.val > value.max
           ELSE IF key = "DC Resistance (DCR)" THEN TRUE
           ELSE pv.val < value.value

RECURSIVE DeleteScan(_, _, _, _)
\* "for i, row in enumerate(query_result): ... del query_result[i]": the
\* iterator goes on to index i + 1 of the list as the deletion left it.
DeleteScan(rows, i, key, value) ==
    IF i > Len(rows) THEN rows
    ELSE IF StageDeletes(rows[i], key, value)
         THEN DeleteScan(RemoveAt(rows, i), i + 1, key, value)
    ELSE DeleteScan(rows, i + 1, key, value)

\* One stage: "else: raise NotImplementedError" for a parameter that is
\* neither Constant nor Range.
DeleteStage(o, key, value) ==
    IF o.error # "none" THEN o
    ELSE IF value.type \notin {"Constant", "Range"}
    THEN [results |-> o.results, error |-> "NotImplementedError"]
    ELSE [results |-> DeleteScan(o.results, 1, key, value), error |-> "none"]

\* inductor_filter(query_result, rated_current, dc_resistance,
\* self_resonant_frequency)
inductor_filter(query_result, rated_current, dc_resistance, self_resonant_frequency) ==
    DeleteStage(
        DeleteStage(
            DeleteStage([results |-> query_result, error |-> "none"],
                        "Rated Current", rated_current),
            "DC Resistance (DCR)", dc_resistance),
        "Frequency - Self Resonant", self_resonant_frequency)

\* Rows that differ in the rated current, and one whose extra is no JSON.
InductorFilterRows ==
    {Row(0, 1, PriceJson(TwoTiers), ExtraAttributes(InductorAttributes(t))) :
        t \in CurrentTexts}
    \cup {Row(0, 1, PriceJson(TwoTiers), ExtraBadJson)}

\* The call inductor_filter(query_result, ...) about to run: results is the
\* list handed in.
InitInductorFilter ==
    /\ catalog \in Catalogs(InductorFilterRows)
    /\ results = catalog
    /\ error = "none" /\ ret = <<>> /\ last = NoCall
    /\ fn = "none" /\ arg = <<>> /\ out = <<>>
    /\ find \in [pc : {1},
                 rated_current : {Constant(2), Range(2, MaxValue), TBD},
                 dc_resistance : {Constant(2), Range(1, MaxValue)},
                 self_resonant_frequency : {Constant(2), Range(1, MaxValue)}]

InductorFilter ==
    /\ find.pc = 1
    /\ LET o == inductor_filter(results, find.rated_current,
                                find.dc_resistance,
                                find.self_resonant_frequency)
       IN  results' = o.results /\ error' = o.error
    /\ find' = [find EXCEPT !.pc = 0]
    /\ UNCHANGED <<catalog, ret, last, fn, arg, out>>

NextInductorFilter == InductorFilter

SpecInductorFilter == InitInductorFilter /\ [][NextInductorFilter]_vars

\* The row's attribute parses and is at least the Constant requirement
\* (at most, for the DC resistance), or inside the Range.
Satisfies(row, key, value) ==
    LET pv == PartVal(row, key, "id")
    IN  /\ pv.exc = "none"
        /\ IF value.type = "Range"
           THEN pv.val >= value.min /\ pv.val <= value.max
           ELSE IF key = "DC Resistance (DCR)" THEN pv.val <= value.value
           ELSE pv.val >= value.value

\* The rows inductor_filter returned satisfy the three constraints.
SurvivorsSatisfyAll ==
    \A i \in 1..Len(results) :
        /\ Satisfies(results[i], "Rated Current", find.rated_current)
        /\ Satisfies(results[i], "DC Resistance (DCR)", find.dc_resistance)
        /\ Satisfies(results[i], "Frequency - Self Resonant",
                     find.self_resonant_frequency)

\* C23: after inductor_filter has returned, every remaining row has
\* parsable attributes that satisfy the three constraints, whatever the
\* input list.
C23_SurvivorsSatisfyConstraints ==
    (find.pc = 0 /\ error = "none") => SurvivorsSatisfyAll

\* What holds of inductor_filter as written: a list of one row is filtered
\* as stated, no deletion having a row after it to skip.
OneRowFilteredAsStated ==
    (find.pc = 0 /\ error = "none" /\ Len(catalog) = 1) => SurvivorsSatisfyAll


\* The channel-type stage of find_mosfet has just run.
ChannelStageRan ==
    /\ find.fn = "find_mosfet"
    /\ last.op = "filter" /\ last.key = "Type"

\* C24: for a Constant channel type, a candidate whose "Type" attribute names
\* the requested channel survives the channel-type stage and a candidate of
\* the other type is removed.
C24_RequestedChannelSurvives ==
    ChannelStageRan =>
        \A i \in 1..Len(last.before) :
            LET part == last.before[i]
            IN  (part.extra.kind = "ok" /\ "Type" \in DOMAIN part.extra.attributes) =>
                    (part \in Elements(results)
                         <=> part.extra.attributes["Type"] = last.value.value)

\* What holds of the stage as written: the channel name is no number, so
\* si_to_float raises for every candidate and the stage removes them all.
ChannelStageRemovesAll ==
    ChannelStageRan => results = <<>>


----------------------------------------------------------------------------
\* mosfet_filter, the filter of the find_mosfet that runs its own SELECT.

\* compare_float_against_parameter(value, parameter): False, True, or
\* NotImplementedError for a parameter that is neither Constant nor Range.
compare_float_against_parameter(value, parameter) ==
    IF parameter.type = "Constant" THEN
        IF value # parameter.value THEN "False" ELSE "True"
    ELSE IF parameter.type = "Range" THEN
        IF value < parameter.min \/ value > parameter.max THEN "False" ELSE "True"
    ELSE "NotImplementedError"

\* "cmp.channel_type == cmp.ChannelType.P_CHANNEL": the Constant object
\* itself is compared with the enum member, not its value; Constant defines
\* no equality with an enum member, so the objects are never equal.
ChannelTypeIsPChannel(channel_type) == FALSE

\* "cmp.channel_type.value == MOSFET.ChannelType.N_CHANNEL", N_CHANNEL = 1
ChannelTypeValueIsNChannel(channel_type) == channel_type.value = 1

\* The attributes compared, in the order of the if statements, each with the
\* field of cmp it is compared against and its attr_fn.
MosfetComparisons ==
    << <<"Continuous Drain Current (Id)", "continuous_drain_current", "id">>,
       <<"Drain Source Voltage (Vdss)", "drain_source_voltage", "id">>,
       <<"Power Dissipation (Pd)", "power_dissipation", "id">>,
       <<"Gate Threshold Voltage (Vgs(th)@Id)",
         "gate_source_threshold_voltage", "split_at">>,
       <<"Drain Source On Resistance (RDS(on)@Vgs,Id)",
         "drain_source_resistance", "split_at">> >>

RECURSIVE CompareFrom(_, _, _)
\* The chain of comparisons from the k-th on: "continue" at the first False.
CompareFrom(r, mosfet, k) ==
    IF k > Len(MosfetComparisons) THEN "keep"
    ELSE LET c == MosfetComparisons[k]
             verdict == compare_float_against_parameter(
                            PartVal(r, c[1], c[3]).val, mosfet[c[2]])
         IN  IF verdict = "NotImplementedError" THEN "NotImplementedError"
             ELSE IF verdict = "False" THEN "skip"
             ELSE CompareFrom(r, mosfet, k + 1)

\* The body of the loop for one row r: "keep", "skip" (a continue) or the
\* exception raised.
MosfetRowVerdict(r, mosfet) ==
    IF r.extra.kind # "ok" THEN "skip"
    ELSE IF \/ "Type" \notin DOMAIN r.extra.attributes
            \/ \E k \in 1..Len(MosfetComparisons) :
                   PartVal(r, MosfetComparisons[k][1],
                           MosfetComparisons[k][3]).exc # "none"
    THEN "skip"
    ELSE IF \/ ChannelTypeValueIsNChannel(mosfet.channel_type)
                 /\ r.extra.attributes["Type"] # NChannel
            \/ ChannelTypeIsPChannel(mosfet.channel_type)
                 /\ r.extra.attributes["Type"] # PChannel
    THEN "skip"
    ELSE CompareFrom(r, mosfet, 1)

RECURSIVE MosfetScan(_, _, _, _)
\* "for r in query.results" from row i on; acc is filtered_resuls.
MosfetScan(rows, i, acc, mosfet) ==
    IF i > Len(rows) THEN [results |-> acc, error |-> "none"]
    ELSE LET verdict == MosfetRowVerdict(rows[i], mosfet)
         IN  IF verdict = "NotImplementedError"
             THEN [results |-> rows, error |-> "NotImplementedError"]
             ELSE MosfetScan(rows, i + 1,
                             IF verdict = "keep" THEN Append(acc, rows[i]) ELSE acc,
                             mosfet)

\* mosfet_filter(query, cmp): query.results after it and what it raised.
\* With a channel type that is no Constant nothing is kept.
mosfet_filter(rows, mosfet) ==
    IF mosfet.channel_type.type = "Constant"
    THEN MosfetScan(rows, 1, <<>>, mosfet)
    ELSE [results |-> <<>>, error |-> "none"]

\* Rows that differ in channel and in the drain current.
MosfetFilterRows ==
    {Row(0, 1, PriceJson(TwoTiers),
         ExtraAttributes([MosfetAttributes(t) EXCEPT !["Type"] = ch])) :
        t \in {Text2A, <<"-">>}, ch \in {NChannel, PChannel}}
    \cup {Row(0, 1, PriceJson(TwoTiers), ExtraBadJson)}

\* The MOSFETs mosfet_filter is called for; P_CHANNEL = 2.
FilteredMosfets ==
    [channel_type : {Constant(1), Constant(2), TBD},
     continuous_drain_current : {Constant(2), Range(1, MaxValue), TBD},
     drain_source_voltage : {Range(1, MaxValue)},
     power_dissipation : {Range(1, MaxValue)},
     gate_source_threshold_voltage : {Range(1, MaxValue)},
     drain_source_resistance : {Constant(2), Range(1, MaxValue)}]

\* The call mosfet_filter(q, cmp) about to run: results is q.results.
InitMosfetFilter ==
    /\ catalog \in Catalogs(MosfetFilterRows)
    /\ results = catalog
    /\ error = "none" /\ ret = <<>> /\ last = NoCall
    /\ fn = "none" /\ arg = <<>> /\ out = <<>>
    /\ find \in [pc : {1}, cmp : FilteredMosfets]

MosfetFilter ==
    /\ find.pc = 1
    /\ LET o == mosfet_filter(results, find.cmp)
       IN  results' = o.results /\ error' = o.error
    /\ find' = [find EXCEPT !.pc = 0]
    /\ UNCHANGED <<catalog, ret, last, fn, arg, out>>

NextMosfetFilter == MosfetFilter

SpecMosfetFilter == InitMosfetFilter /\ [][NextMosfetFilter]_vars

\* mosfet_filter has returned for a Constant channel type.
MosfetFiltered ==
    find.pc = 0 /\ error = "none" /\ find.cmp.channel_type.type = "Constant"

\* C25: every candidate mosfet_filter keeps has the "Type" of the requested
\* channel: with N_CHANNEL no "P Channel" part survives, with P_CHANNEL no
\* "N Channel" part.
C25_KeptHaveRequestedChannel ==
    MosfetFiltered =>
        \A i \in 1..Len(results) :
            results[i].extra.attributes["Type"] =
                (IF find.cmp.channel_type.value = 1 THEN NChannel ELSE PChannel)

\* What holds of mosfet_filter as written: the N_CHANNEL request keeps
\* "N Channel" parts only.
NChannelRequestKeepsNChannel ==
    (MosfetFiltered /\ find.cmp.channel_type.value = 1) =>
        \A i \in 1..Len(results) :
            results[i].extra.attributes["Type"] = NChannel


----------------------------------------------------------------------------
\* The attribute filter called with a TBD constraint.

\* The call that returned last is a filter with a TBD constraint.
FilteredByTBD == last.op = "filter" /\ last.value.type = "TBD"

----------------------------------------------------------------------------
\* The candidates of a resolution and the rows of its own query.

\* Row a is the candidate b: the same part, whatever ranking wrote into its
\* price.
SameCandidate(a, b) ==
    a.lcsc_pn = b.lcsc_pn /\ a.basic = b.basic /\ a.extra = b.extra

RECURSIVE IsSubSequence(_, _)
\* s is t with some rows left out, the others in the order of t.
IsSubSequence(s, t) ==
    IF Len(s) = 0 THEN TRUE
    ELSE IF Len(t) = 0 THEN FALSE
    ELSE IF SameCandidate(s[1], t[1])
         THEN IsSubSequence(Tail(s), Tail(t))
    ELSE IsSubSequence(s, Tail(t))

\* Every row of s is a candidate of t, and none is there twice.
IsSelection(s, t) ==
    /\ \A i \in 1..Len(s) : \E j \in 1..Len(t) : SameCandidate(s[i], t[j])
    /\ \A i, j \in 1..Len(s) : s[i].lcsc_pn = s[j].lcsc_pn => i = j

\* The query of the resolution has returned rows.
AfterOwnQuery == find.fn # "find_partnumber" /\ find.own # <<>>

\* The part selected, if one was, is a row of the resolution's own query.
SelectedAmongOwn ==
    ret # <<>> => \E j \in 1..Len(find.own) : SameCandidate(ret[1], find.own[j])

----------------------------------------------------------------------------
\* pick_inductor: find_inductor, then the value read back from the
\* description of the part selected.

ValueChars == Digits \cup {"."}
PrefixChars == {"\"", "p", "n", "u", "µ", "m", "k", "M", "G"}
UnitChars == {"Ω", "F", "H"}

\* The length of the longest run of characters of chars in s from index i.
RunLength(s, i, chars) ==
    CHOOSE n \in 0..(Len(s) - i + 1) :
        /\ \A k \in i..(i + n - 1) : s[k] \in chars
        /\ i + n > Len(s) \/ s[i + n] \notin chars

\* The length of the match of [\.0-9]+["pnuµmkMG]?[ΩFH] that starts at
\* index i of s, 0 if there is none. The three classes are disjoint, so the
\* run of value characters is taken whole.
MatchLengthAt(s, i) ==
    LET n == RunLength(s, i, ValueChars)
        j == i + n
    IN  IF n = 0 THEN 0
        ELSE IF j + 1 <= Len(s) /\ s[j] \in PrefixChars /\ s[j + 1] \in UnitChars
        THEN n + 2
        ELSE IF j <= Len(s) /\ s[j] \in UnitChars THEN n + 1
        ELSE 0

\* re.search(...).group(): the leftmost match in s; <<>> stands for the None
\* of no match.
re_search(s) ==
    IF \E i \in 1..Len(s) : MatchLengthAt(s, i) > 0
    THEN LET i == CHOOSE k \in 1..Len(s) :
                      /\ MatchLengthAt(s, k) > 0
                      /\ \A m \in 1..(k - 1) : MatchLengthAt(s, m) = 0
         IN  SubSeq(s, i, i + MatchLengthAt(s, i) - 1)
    ELSE <<>>

\* get_value_from_pn(lcsc_pn): the rows with that lcsc number, LookupError
\* unless there is exactly one, then the regular expression on its
\* description; .group() of None is an AttributeError.
get_value_from_pn(lcsc_pn) ==
    LET res == {i \in 1..Len(catalog) : catalog[i].lcsc_pn = lcsc_pn}
    IN  IF Cardinality(res) # 1 THEN [error |-> "LookupError", value |-> <<>>]
        ELSE LET value == re_search(catalog[CHOOSE i \in res : TRUE].description)
             IN  IF value = <<>> THEN [error |-> "AttributeError", value |-> <<>>]
                 ELSE [error |-> "none", value |-> value]

\* find_inductor(db, cmp) from query_category on: the four filter stages,
\* ranking, log_result.
FindInductorOutcome(rows, cmp, quantity) ==
    LET one == FilterResults(rows, "Inductance", cmp.inductance, "id")
        two == FilterResults(one.results, "Rated Current", cmp.rated_current, "id")
        three == FilterResults(two.results, "DC Resistance (DCR)",
                               cmp.dc_resistance, "id")
        four == FilterResults(three.results, "Frequency - Self Resonant",
                              cmp.self_resonant_frequency, "id")
        sorted == SortOutcome(four.results, quantity)
    IN  IF sorted.error # "none" THEN sorted
        ELSE [sorted EXCEPT !.error = LogResultError("find_inductor", cmp)]

InductanceTexts == {<<"2", "H">>, <<"3", "H">>}

\* Descriptions of a part of inductance text l: the inductance alone, after
\* the rated current, after the DC resistance, and none of them.
Descriptions(l) ==
    {l, <<"2", "A", " ">> \o l, <<"3", "Ω", " ">> \o l, <<"S", "M", "D">>}

PickRows ==
    {Row(0, 1, PriceJson(TwoTiers),
         ExtraAttributes([InductorAttributes(Text2A) EXCEPT !["Inductance"] = l]))
     @@ [description |-> d] :
        l \in InductanceTexts, d \in UNION {Descriptions(m) : m \in InductanceTexts}}

\* Rows whose description was written from their inductance attribute.
PickRowsDescribed ==
    {r \in PickRows : r.description \in Descriptions(r.extra.attributes["Inductance"])}

PickedInductors ==
    [inductor_type : {Constant(1)},
     case_size : {Constant(3)},
     inductance : {Constant(2), Constant(3), Range(1, MaxValue)},
     tolerance : {Constant(2000)},
     rated_current : {Range(1, MaxValue), TBD},
     dc_resistance : {Range(1, MaxValue)},
     self_resonant_frequency : {TBD}]

\* pick_inductor(db, cmp) about to run on a fresh db.
InitPick ==
    /\ catalog \in Catalogs(PickRowsDescribed)
    /\ results = <<>>
    /\ error = "none" /\ ret = <<>> /\ last = NoCall
    /\ fn = "none" /\ arg = <<>> /\ out = <<>>
    /\ \E cmp \in PickedInductors :
           find = [pc |-> "find", cmp |-> cmp, given |-> cmp, quantity |-> 1]

\* lcsc_pn = find_inductor(db, cmp); hit is what the SELECT matches.
PickFind(hit) ==
    /\ find.pc = "find"
    /\ last' = [NoCall EXCEPT !.op = "query_category", !.hit = hit]
    /\ IF hit = {}
       THEN /\ error' = "LookupError"
            /\ UNCHANGED <<results, ret>>
       ELSE LET o == FindInductorOutcome(SubSeqAt(catalog, hit, 1), find.cmp,
                                         find.quantity)
            IN  results' = o.results /\ error' = o.error /\ ret' = o.ret
    /\ find' = [find EXCEPT !.pc = IF error' = "none" THEN "read" ELSE "failed"]
    /\ UNCHANGED <<catalog, fn, arg, out>>

\* value = get_value_from_pn(lcsc_pn);
\* value_flt = si_to_float(value.strip("H").replace("u", "µ"));
\* cmp.set_inductance(Constant(value_flt))
PickReadBack ==
    /\ find.pc = "read"
    /\ LET got == get_value_from_pn(ret[1].lcsc_pn)
           value_flt == si_to_float(ReplaceChar(StripChars(got.value, {"H"}),
                                                "u", "µ"))
       IN  IF got.error # "none"
           THEN error' = got.error /\ find' = [find EXCEPT !.pc = "failed"]
           ELSE IF value_flt = ParseError
           THEN error' = "SiParseError" /\ find' = [find EXCEPT !.pc = "failed"]
           ELSE /\ error' = "none"
                /\ find' = [find EXCEPT !.pc = "done",
                                        !.cmp.inductance = Constant(value_flt)]
    /\ UNCHANGED <<catalog, results, ret, last, fn, arg, out>>

NextPick ==
    \/ \E hit \in SUBSET (1..Len(catalog)) : PickFind(hit)
    \/ PickReadBack

SpecPick == InitPick /\ [][NextPick]_vars

\* pick_inductor has completed.
Picked == find.pc = "done"

\* The value v meets the constraint the component was handed in with.
MeetsGiven(v, given) ==
    IF given.type = "Constant" THEN v = given.value
    ELSE given.min <= v /\ v <= given.max

\* C28: after pick_inductor has completed, the component's value is a
\* Constant that meets the original constraint, and it is the value of the
\* primary quantity of the part selected, not of another quantity the
\* description mentions.
C28_PickedValueMeetsConstraint ==
    Picked =>
        /\ find.cmp.inductance.type = "Constant"
        /\ MeetsGiven(find.cmp.inductance.value, find.given.inductance)
        /\ find.cmp.inductance.value =
               si_to_float(ret[1].extra.attributes["Inductance"])

\* What holds of pick_inductor as written: the value set is the first
\* quantity in ohm, farad or henry that the description mentions.
PickedValueIsFirstMentioned ==
    Picked =>
        /\ find.cmp.inductance.type = "Constant"
        /\ \E i \in 1..Len(catalog) :
               /\ catalog[i].lcsc_pn = ret[1].lcsc_pn
               /\ find.cmp.inductance.value =
                      si_to_float(re_search(catalog[i].description))


----------------------------------------------------------------------------
\* build_capacitor_temperature_coefficient_query: the grades it names.

\* The builder has returned for a Constant or a Range.
TemperatureCoefficientBuilt ==
    /\ fn = "build_capacitor_temperature_coefficient_query"
    /\ out # Pending
    /\ arg.temperature_coefficient.type \in {"Constant", "Range"}

\* The lowest and the highest grade asked for: the grade itself up to C0G
\* for a Constant, the bounds for a Range.
GradeLow == arg.temperature_coefficient.min
GradeHigh ==
    IF arg.temperature_coefficient.type = "Constant" THEN C0G
    ELSE arg.temperature_coefficient.max

\* C29: the builder names exactly the grades from the requested one up to
\* C0G for a Constant and exactly the grades of the interval for a Range,
\* once each and in the declared order; no grade below the requested minimum
\* is named.
C29_GradesFromMinimumUp ==
    TemperatureCoefficientBuilt =>
        /\ out.error = "none"
        /\ \A g \in 1..Len(TemperatureCoefficient) :
               (\E i \in 1..Len(out.frags) : out.frags[i] = TemperatureCoefficient[g])
                   <=> (GradeLow <= g /\ g <= GradeHigh)
        /\ \A i, j \in 1..Len(out.frags) :
               i < j => \E g, h \in 1..Len(TemperatureCoefficient) :
                            /\ g < h
                            /\ out.frags[i] = TemperatureCoefficient[g]
                            /\ out.frags[j] = TemperatureCoefficient[h]

\* C29 witness: asked for X7R as a Constant, the builder has named X7R, X8R
\* and C0G.
X7RAndBetterNamed ==
    /\ TemperatureCoefficientBuilt
    /\ arg.temperature_coefficient = Constant(6)
    /\ out.frags = <<"X7R", "X8R", "C0G">>


----------------------------------------------------------------------------
\* construct_sense_resistors: the loop that chooses the sense resistors.
\* Voltages and currents are whole numbers, resistances are counted in
\* tenths of an ohm, and a quotient is the pair <<numerator, denominator>>.

\* The list sense_resistor_values holds at most this many values.
MaxResistors == 8

\* The decades of standard values: mantissa * 10^0 .. 10^MaxExp tenths.
MaxExp == 3

\* E12 of library.e_series, in tenths, ascending.
E12 == << 10, 12, 15, 18, 22, 27, 33, 39, 47, 56, 68, 82 >>

\* The standard values of E12 in all the decades.
E12Values == {E12[i] * Pow10(k) : i \in 1..Len(E12), k \in 0..MaxExp}

\* e_series_in_range(Range(lo, hi), E12) of library.e_series as a set: the
\* standard values inside the closed interval of the quotients lo and hi.
E12InRange(lo, hi) ==
    {v \in E12Values : lo[1] <= v * lo[2] /\ v * hi[2] <= hi[1]}

\* [0] and [-1] of the ascending list; the list is not empty.
First(values) == CHOOSE v \in values : \A w \in values : v <= w
Last(values) == CHOOSE v \in values : \A w \in values : w <= v

\* r_sense = Range(sense_voltage_range.max / current_range.max,
\*                 sense_voltage_range.min / current_range.min), in tenths.
RSenseMin(s) == <<10 * s.sense_voltage_range.max, s.current_range.max>>
RSenseMax(s) == <<10 * s.sense_voltage_range.min, s.current_range.min>>

\* r_next_min = r / (1 - hysteresis) / (sense_voltage_range.max /
\* sense_voltage_range.min); the hysteresis is the quotient n / d.
RNextMin(s, r) ==
    <<r * s.hysteresis[2] * s.sense_voltage_range.min,
      (s.hysteresis[2] - s.hysteresis[1]) * s.sense_voltage_range.max>>

\* Quotient a is smaller than quotient b (positive denominators).
QLess(a, b) == a[1] * b[2] < b[1] * a[2]

\* Ranges with 0 < min <= max whose r_sense has 1 ohm <= min <= max, and
\* hystereses in [0, 1).
SenseInputs ==
    {s \in [sense_voltage_range : {[min |-> 10, max |-> 10],
                                   [min |-> 10, max |-> 20],
                                   [min |-> 10, max |-> 50],
                                   [min |-> 10, max |-> 100]},
            current_range : {[min |-> 1, max |-> 1], [min |-> 1, max |-> 5],
                             [min |-> 1, max |-> 10], [min |-> 1, max |-> 50],
                             [min |-> 1, max |-> 100], [min |-> 2, max |-> 100]},
            hysteresis : {<<0, 1>>, <<1, 5>>, <<1, 2>>}] :
        /\ ~QLess(RSenseMax(s), RSenseMin(s))
        /\ ~QLess(RSenseMin(s), <<10, 1>>)}

\* construct_sense_resistors about to run.
InitSense ==
    /\ catalog = <<>> /\ results = <<>> /\ error = "none" /\ ret = <<>>
    /\ last = NoCall
    /\ fn = "none" /\ arg = <<>> /\ out = <<>>
    /\ \E s \in SenseInputs :
           find = [pc |-> "first", values |-> <<>>,
                   sense_voltage_range |-> s.sense_voltage_range,
                   current_range |-> s.current_range,
                   hysteresis |-> s.hysteresis]

\* "select first (highest) sensing resistor in E series"
SelectFirst ==
    /\ find.pc = "first"
    /\ LET hi == RSenseMax(find)
           in_range == E12InRange(hi, <<10 * hi[1], hi[2]>>)
       IN  find' = [find EXCEPT !.pc = "loop", !.values = <<First(in_range)>>]
    /\ UNCHANGED <<catalog, results, error, ret, last, fn, arg, out>>

\* One pass of "while True".
LoopPass ==
    /\ find.pc = "loop"
    /\ Len(find.values) < MaxResistors
    /\ LET r == find.values[Len(find.values)]
           r_next_min == RNextMin(find, r)
       IN  IF 10 * find.sense_voltage_range.max >= find.current_range.max * r
           THEN find' = [find EXCEPT !.pc = "done"]
           ELSE IF QLess(r_next_min, RSenseMin(find))
           THEN find' = [find EXCEPT
                            !.pc = "done",
                            !.values = Append(@, Last(E12InRange(
                                <<r_next_min[1], 10 * r_next_min[2]>>,
                                RSenseMin(find))))]
           ELSE find' = [find EXCEPT
                            !.values = Append(@, First(E12InRange(
                                r_next_min,
                                <<10 * r_next_min[1], r_next_min[2]>>)))]
    /\ UNCHANGED <<catalog, results, error, ret, last, fn, arg, out>>

NextSense == SelectFirst \/ LoopPass

SpecSense == InitSense /\ [][NextSense]_vars

\* The loop is not starved of steps.
SpecSenseFair == SpecSense /\ WF_vars(NextSense)

\* The values chosen so far, each strictly smaller than the one before.
StrictlyDecreasing(values) ==
    \A i \in 1..(Len(values) - 1) : values[i + 1] < values[i]

\* C30: construct_sense_resistors terminates for every such input: each
\* value appended is strictly smaller than the previous one, and the loop
\* ends.
C30_SenseResistorsTerminate ==
    [](StrictlyDecreasing(find.values)) /\ <>(find.pc = "done")

\* What holds of the loop as written: a value appended is the previous one
\* again whenever r_next_min lies between the standard value below r and r.
NeverBelowNextMinimum ==
    \A i \in 1..(Len(find.values) - 1) :
        i + 1 < Len(find.values) \/ find.pc = "loop" =>
            ~QLess(<<find.values[i + 1], 1>>, RNextMin(find, find.values[i]))

====
